---- MODULE Spec2Model ----
(***************************************************************************)
(* A model of the Form 990 extraction backend (affinity_backend).          *)
(*                                                                         *)
(* Text is a sequence of symbols.  A symbol is one character ("1", ",",    *)
(* " ", "\n", "f", ...) or one fixed phrase of the form ("Total revenue",  *)
(* "Royalties", ...) that the source's regular expressions match as a      *)
(* literal.  A phrase counts as word characters.  The regular expressions  *)
(* of the source are transcribed node by node and run by a backtracking    *)
(* matcher with Python's re priorities (leftmost start, greedy or lazy     *)
(* repetition, ordered alternation).  re.IGNORECASE is not modelled: the   *)
(* texts use one spelling of every phrase.                                 *)
(*                                                                         *)
(* Python's None is the value None below, the empty string is <<>>.        *)
(* Floating-point confidences are exact fixed-point integers.              *)
(***************************************************************************)
EXTENDS Integers, Sequences, FiniteSets, TLC

VARIABLES
    value,      \* amount validator: the token under test
    verdict,    \* amount validator: "unset", or the two predicates' answers
    field_confidences,  \* scorer: the map given to calculate_overall_confidence
    doc_confidence,     \* scorer: the DocumentConfidence returned, or Unset
    prev_confidence,    \* scorer: the DocumentConfidence before a replacement
    replaced,           \* scorer: the entry a replacement took out, or Unset
    row_input,          \* row lookup: the row line and its surroundings
    row_value,          \* row lookup: NotYet, or the value the extractor returned
    pdf,                \* pipeline: the uploaded document (its lines, its OCR quality)
    stage,              \* pipeline: the step extract_all_fields_v2_hybrid has reached
    v1_fields,          \* pipeline: the fields as the base extraction found them
    fields,             \* pipeline: page1_fields, part8_fields, part9_fields
    result,             \* pipeline: the ExtractionResultV2, or Unset
    request,            \* endpoint: fail_fast and confidence_threshold, or Unset
    response,           \* endpoint: the ExtractionResponseV2, or Unset
    cross_input,        \* cross-validator: the three field dicts handed over
    validation,         \* cross-validator: the call made and what it returned
    backends,           \* combiner: the extractors listed, each with its outcome
    prefer_pdfminer_if_scanned,  \* combiner: the policy flag
    extraction,         \* combiner: the call made and what it returned or raised
    section_input,      \* section extraction: the text and the sections that raise
    section_result,     \* section extraction: the call made and its outcome
    pages,              \* analyzer: the page dicts of the document
    analysis,           \* analyzer: the call made and what it returned
    upload_dir,         \* endpoints: the files of the upload directory, by path
    inflight            \* endpoints: the requests being served, each with its position

AmountVars == <<value, verdict>>

ScorerVars == <<field_confidences, doc_confidence, prev_confidence, replaced>>

RowVars == <<row_input, row_value>>

PipelineVars == <<pdf, stage, v1_fields, fields, result, request, response>>

ValidatorVars == <<cross_input, validation>>

CombinerVars == <<backends, prefer_pdfminer_if_scanned, extraction>>

SectionVars == <<section_input, section_result>>

AnalyzerVars == <<pages, analysis>>

EndpointVars == <<upload_dir, inflight>>

ServiceVars == <<ValidatorVars, CombinerVars, SectionVars, AnalyzerVars, EndpointVars>>

vars == <<AmountVars, ScorerVars, RowVars, PipelineVars, ServiceVars>>

\* A component that has not been given its input yet
Unset == [unset |-> TRUE]

\* A text value that has not been computed yet
NotYet == <<"NotYet">>

AmountIdle ==
    /\ value = <<>>
    /\ verdict = "unset"

ScorerIdle ==
    /\ field_confidences = Unset
    /\ doc_confidence = Unset
    /\ prev_confidence = Unset
    /\ replaced = Unset

RowIdle ==
    /\ row_input = Unset
    /\ row_value = NotYet

PipelineIdle ==
    /\ pdf = Unset
    /\ stage = "idle"
    /\ v1_fields = Unset
    /\ fields = Unset
    /\ result = Unset
    /\ request = Unset
    /\ response = Unset

ValidatorIdle ==
    /\ cross_input = Unset
    /\ validation = Unset

CombinerIdle ==
    /\ backends = <<>>
    /\ prefer_pdfminer_if_scanned = TRUE
    /\ extraction = Unset

SectionIdle ==
    /\ section_input = Unset
    /\ section_result = Unset

AnalyzerIdle ==
    /\ pages = <<>>
    /\ analysis = Unset

EndpointIdle ==
    /\ upload_dir = <<>>
    /\ inflight = <<>>

ServiceIdle ==
    /\ ValidatorIdle
    /\ CombinerIdle
    /\ SectionIdle
    /\ AnalyzerIdle
    /\ EndpointIdle

\* ------------------------------------------------------------------------
\* Python values

None == <<"None">>

Truthy(v) == v # None /\ v # <<>>

Min(a, b) == IF a < b THEN a ELSE b

Max(a, b) == IF a > b THEN a ELSE b

\* F applied to the value x: a value computed once and named in what follows
With(x, F(_)) == F(x)

\* a or b of Python: a when it is truthy, else b
OrElse(a, b) == IF Truthy(a) THEN a ELSE b

\* ------------------------------------------------------------------------
\* Character classes of the re module

Digit == {"0", "1", "2", "3", "4", "5", "6", "7", "8", "9"}

\* Symbols that are not \w: everything else (letters, digits, phrases) is.
NonWordSyms == {" ", "\n", ",", ".", "$", "~", "-"}

Cls(S) == [s |-> S, neg |-> FALSE]

NotCls(S) == [s |-> S, neg |-> TRUE]

InCls(c, cls) == (c \in cls.s) # cls.neg

ClsDigit == Cls(Digit)

ClsDigitComma == Cls(Digit \cup {","})

ClsSpace == Cls({" ", "\n"})

ClsNotNL == NotCls({"\n"})

ClsAny == NotCls({})

\* ------------------------------------------------------------------------
\* Regular expression nodes.  A pattern is a sequence of nodes.

\* A repetition with max -1 is unbounded.
One(cls) == [k |-> "set", c |-> cls]

Lit(sym) == One(Cls({sym}))

Rep(cls, lo, hi) == [k |-> "star", c |-> cls, min |-> lo, max |-> hi, lazy |-> FALSE]

Star(cls) == Rep(cls, 0, -1)

Plus(cls) == Rep(cls, 1, -1)

LazyStar(cls) == [k |-> "star", c |-> cls, min |-> 0, max |-> -1, lazy |-> TRUE]

WB == [k |-> "wb"]

Eos == [k |-> "eos"]

\* $ without MULTILINE: the end of the text, or just before a final newline
Dollar == [k |-> "dollar"]

Open(g) == [k |-> "open", g |-> g]

Close(g) == [k |-> "close", g |-> g]

Alt(branches) == [k |-> "alt", a |-> branches]

Opt(r) == Alt(<<r, <<>>>>)

RepGroup(r, lo, hi) == [k |-> "rep", r |-> r, min |-> lo, max |-> hi]

Str(syms) == [i \in 1..Len(syms) |-> Lit(syms[i])]

\* ------------------------------------------------------------------------
\* The matcher

NoCaps == <<<<0, 0>>, <<0, 0>>>>

NoMatch == [ok |-> FALSE, start |-> 0, end |-> 0, caps |-> NoCaps]

IsWordAt(t, i) == i >= 1 /\ i <= Len(t) /\ t[i] \notin NonWordSyms

RECURSIVE RunLen(_, _, _, _)
RunLen(t, i, cls, limit) ==
    IF limit = 0 \/ i > Len(t) THEN 0
    ELSE IF ~InCls(t[i], cls) THEN 0
    ELSE 1 + RunLen(t, i + 1, cls, limit - 1)

RECURSIVE MatchAt(_, _, _, _)
RECURSIVE TryLengths(_, _, _, _, _, _, _)
RECURSIVE TryBranches(_, _, _, _, _, _)

\* The continuation re matched at position i of t; the first success in
\* backtracking order.
MatchAt(re, t, i, caps) ==
    IF Len(re) = 0 THEN [ok |-> TRUE, start |-> 0, end |-> i, caps |-> caps]
    ELSE
      LET h == Head(re)
          rest == Tail(re)
      IN  CASE h.k = "set" ->
                 IF i <= Len(t) /\ InCls(t[i], h.c)
                 THEN MatchAt(rest, t, i + 1, caps) ELSE NoMatch
            [] h.k = "wb" ->
                 IF IsWordAt(t, i - 1) # IsWordAt(t, i)
                 THEN MatchAt(rest, t, i, caps) ELSE NoMatch
            [] h.k = "eos" ->
                 IF i = Len(t) + 1 THEN MatchAt(rest, t, i, caps) ELSE NoMatch
            [] h.k = "dollar" ->
                 IF i = Len(t) + 1 \/ (i = Len(t) /\ t[i] = "\n")
                 THEN MatchAt(rest, t, i, caps) ELSE NoMatch
            [] h.k = "open" ->
                 MatchAt(rest, t, i, [caps EXCEPT ![h.g] = <<i, i>>])
            [] h.k = "close" ->
                 MatchAt(rest, t, i, [caps EXCEPT ![h.g] = <<caps[h.g][1], i>>])
            [] h.k = "star" ->
                 LET run == RunLen(t, i, h.c, h.max)
                 IN  IF run < h.min THEN NoMatch
                     ELSE IF h.lazy
                          THEN TryLengths(rest, t, i, caps, h.min, run, 1)
                          ELSE TryLengths(rest, t, i, caps, run, h.min, -1)
            [] h.k = "alt" -> TryBranches(h.a, 1, rest, t, i, caps)
            [] h.k = "rep" ->
                 LET again == [h EXCEPT !.min = Max(0, h.min - 1), !.max = IF h.max < 0 THEN -1 ELSE h.max - 1]
                     more == IF h.max # 0
                             THEN MatchAt(h.r \o <<again>> \o rest, t, i, caps)
                             ELSE NoMatch
                 IN  IF more.ok THEN more
                     ELSE IF h.min = 0 THEN MatchAt(rest, t, i, caps) ELSE NoMatch

TryLengths(rest, t, i, caps, n, last, step) ==
    LET r == MatchAt(rest, t, i + n, caps)
    IN  IF r.ok THEN r
        ELSE IF n = last THEN NoMatch
        ELSE TryLengths(rest, t, i, caps, n + step, last, step)

TryBranches(branches, b, rest, t, i, caps) ==
    IF b > Len(branches) THEN NoMatch
    ELSE LET r == MatchAt(branches[b] \o rest, t, i, caps)
         IN  IF r.ok THEN r ELSE TryBranches(branches, b + 1, rest, t, i, caps)

\* re.search from position i: the leftmost start that matches.
RECURSIVE SearchFrom(_, _, _)
SearchFrom(re, t, i) ==
    IF i > Len(t) + 1 THEN NoMatch
    ELSE LET r == MatchAt(re, t, i, NoCaps)
         IN  IF r.ok THEN [r EXCEPT !.start = i] ELSE SearchFrom(re, t, i + 1)

Search(re, t) == SearchFrom(re, t, 1)

\* match.group(g) and match.group(0)
Group(t, m, g) == SubSeq(t, m.caps[g][1], m.caps[g][2] - 1)

Group0(t, m) == SubSeq(t, m.start, m.end - 1)

\* re.findall for a pattern with one group: group 1 of every match, scanning
\* on from the end of each match (one further after an empty match).
RECURSIVE FindAllFrom(_, _, _)
FindAllFrom(re, t, i) ==
    LET m == SearchFrom(re, t, i)
    IN  IF ~m.ok THEN <<>>
        ELSE <<Group(t, m, 1)>>
             \o FindAllFrom(re, t, IF m.end = m.start THEN m.end + 1 ELSE m.end)

FindAll(re, t) == FindAllFrom(re, t, 1)

\* ------------------------------------------------------------------------
\* str helpers

\* s.replace(c, '') for every c of S
Remove(s, S) == SelectSeq(s, LAMBDA c : c \notin S)

\* str.isdigit: non-empty and all digits
isdigit(s) == Len(s) > 0 /\ \A i \in 1..Len(s) : s[i] \in Digit

DigitVal(c) ==
    CASE c = "0" -> 0 [] c = "1" -> 1 [] c = "2" -> 2 [] c = "3" -> 3
      [] c = "4" -> 4 [] c = "5" -> 5 [] c = "6" -> 6 [] c = "7" -> 7
      [] c = "8" -> 8 [] c = "9" -> 9

\* int(s) of a digit string
RECURSIVE int(_)
int(s) ==
    IF Len(s) = 0 THEN 0
    ELSE 10 * int(SubSeq(s, 1, Len(s) - 1)) + DigitVal(s[Len(s)])

\* ------------------------------------------------------------------------
\* Amount validator

MIN_AMOUNT_LENGTH == 4

\* A validator that takes three characters for an amount.
Mut_is_valid_monetary_amount(v) ==
    IF v = None \/ v = <<>> THEN FALSE
    ELSE
      LET clean == Remove(v, {",", "."})
      IN  IF clean = <<"0">> \/ v = <<"0", ".", "0", "0">> THEN TRUE
          ELSE IF ~isdigit(clean) THEN FALSE
          ELSE IF Len(clean) < MIN_AMOUNT_LENGTH - 1 THEN FALSE
          ELSE IF int(clean) < 100 THEN FALSE
          ELSE TRUE

\* FieldExtractor._is_valid_monetary_amount
_is_valid_monetary_amount(v) ==
    IF v = None \/ v = <<>> THEN FALSE
    ELSE
      LET clean == Remove(v, {",", "."})
      IN  IF clean = <<"0">> \/ v = <<"0", ".", "0", "0">> THEN TRUE
          ELSE IF ~isdigit(clean) THEN FALSE
          ELSE IF Len(clean) < MIN_AMOUNT_LENGTH THEN FALSE
          ELSE IF int(clean) < 100 THEN FALSE
          ELSE TRUE

\* BaseFieldExtractor._is_valid_monetary_amount, the copy with the literal 4
Base_is_valid_monetary_amount(v) ==
    IF v = None \/ v = <<>> THEN FALSE
    ELSE
      LET clean == Remove(v, {",", "."})
      IN  IF clean = <<"0">> \/ v = <<"0", ".", "0", "0">> THEN TRUE
          ELSE IF ~isdigit(clean) THEN FALSE
          ELSE IF Len(clean) < 4 THEN FALSE
          ELSE IF int(clean) < 100 THEN FALSE
          ELSE TRUE

\* ------------------------------------------------------------------------
\* Amount search (services/field_extractor.py)

\* AMOUNT_RE = r'([\d,]{4,}(?:\.\d{2})?|\b0(?:\.00)?\b)'
AMOUNT_RE ==
    << Open(1),
       Alt(<< << Rep(ClsDigitComma, MIN_AMOUNT_LENGTH, -1),
                 Opt(<<Lit("."), Rep(ClsDigit, 2, 2)>>) >>,
              << WB, Lit("0"), Opt(Str(<<".", "0", "0">>)), WB >> >>),
       Close(1) >>

LOOKAHEAD_LINES == 3

\* text[a:] and text[a:b] with 0-based Python bounds inside the text
From(t, a) == SubSeq(t, a + 1, Len(t))

Slice(t, a, b) == SubSeq(t, a + 1, Min(b, Len(t)))

\* re.sub(r'  +', ' ', text)
RECURSIVE _normalize_spaces(_)
_normalize_spaces(t) ==
    IF Len(t) = 0 THEN <<>>
    ELSE IF Len(t) >= 2 /\ t[1] = " " /\ t[2] = " "
         THEN _normalize_spaces(Tail(t))
         ELSE <<Head(t)>> \o _normalize_spaces(Tail(t))

\* An amount search that skips the validator.
Mut_find_amounts_in_text(text_block) == FindAll(AMOUNT_RE, text_block)

\* FieldExtractor._find_amounts_in_text
_find_amounts_in_text(text_block) ==
    SelectSeq(FindAll(AMOUNT_RE, text_block), _is_valid_monetary_amount)

\* FieldExtractor._get_subsequent_lines; match_end is the 1-based position
\* one past the match
_get_subsequent_lines(t, match_end, count) ==
    LET lines == FindAll(<<Lit("\n"), Open(1), Star(ClsNotNL), Close(1)>>,
                         SubSeq(t, match_end, Len(t)))
    IN  SubSeq(lines, 1, Min(count, Len(lines)))

First(s) == s[1]

Last(s) == s[Len(s)]

\* valid[0] if take == "first" else valid[-1], or otherwise when valid is empty
TakeAmount(valid, take, otherwise) ==
    IF Len(valid) > 0
    THEN (IF take = "first" THEN First(valid) ELSE Last(valid))
    ELSE otherwise

RECURSIVE LookaheadFrom(_, _, _)
LookaheadFrom(lines, k, take) ==
    IF k > Len(lines) THEN None
    ELSE TakeAmount(_find_amounts_in_text(lines[k]), take,
                    LookaheadFrom(lines, k + 1, take))

\* A lookahead that goes through every line that follows.
Mut_find_amounts_with_lookahead(t, m, take) ==
    TakeAmount(_find_amounts_in_text(Group0(t, m)), take,
               LookaheadFrom(_get_subsequent_lines(t, m.end, Len(t)), 1, take))

\* FieldExtractor._find_amounts_with_lookahead
_find_amounts_with_lookahead(t, m, take) ==
    TakeAmount(_find_amounts_in_text(Group0(t, m)), take,
               LookaheadFrom(_get_subsequent_lines(t, m.end, LOOKAHEAD_LINES), 1, take))

\* FieldExtractor._find_first_valid_amount; pattern is a regex
_find_first_valid_amount(t, pattern) ==
    With(Search(pattern \o <<Star(ClsNotNL)>>, t),
         LAMBDA m : IF m.ok THEN _find_amounts_with_lookahead(t, m, "first") ELSE None)

\* FieldExtractor._extract_current_year_value: rf'{row_num}\s+{description}[^\n]*'
_extract_current_year_value(t, row_num, description) ==
    With(Search(Str(row_num) \o <<Plus(ClsSpace)>> \o description
                \o <<Star(ClsNotNL)>>, t),
         LAMBDA m :
           IF ~m.ok THEN None
           ELSE TakeAmount(_find_amounts_in_text(Group0(t, m)), "last", None))

\* extract_p8 of _extract_part_viii_fields, on the normalised section
extract_p8(section, row_code, label) ==
    OrElse(_find_first_valid_amount(section,
               <<WB>> \o Str(row_code) \o <<WB, Star(ClsNotNL)>> \o label),
      OrElse(_find_first_valid_amount(section,
                 label \o <<Star(ClsNotNL), WB>> \o Str(row_code) \o <<WB>>),
             IF Len(label) > 0 THEN _find_first_valid_amount(section, label)
             ELSE None))

\* extract_p9 of _extract_part_ix_fields, on the normalised section
extract_p9(section, row_code, label) ==
    OrElse(_find_first_valid_amount(section,
               <<WB>> \o Str(row_code) \o <<WB, Star(ClsNotNL)>> \o label),
      OrElse(_find_first_valid_amount(section,
                 label \o <<Star(ClsNotNL), WB>> \o Str(row_code) \o <<WB>>),
             IF Len(label) > 0 THEN _find_first_valid_amount(section, label)
             ELSE None))

\* ------------------------------------------------------------------------
\* str helpers of the extractors

ClsNL == Cls({"\n"})

ClsNotDigit == NotCls(Digit)

\* s.rstrip(c)
RECURSIVE rstrip(_, _)
rstrip(s, c) ==
    IF Len(s) > 0 /\ s[Len(s)] = c THEN rstrip(SubSeq(s, 1, Len(s) - 1), c) ELSE s

\* s.startswith(prefix)
startswith(s, prefix) ==
    Len(s) >= Len(prefix) /\ SubSeq(s, 1, Len(prefix)) = prefix

\* The first 1-based position of sub in s, 0 when there is none
RECURSIVE FindFrom(_, _, _)
FindFrom(s, sub, i) ==
    IF i + Len(sub) - 1 > Len(s) THEN 0
    ELSE IF SubSeq(s, i, i + Len(sub) - 1) = sub THEN i
    ELSE FindFrom(s, sub, i + 1)

\* sub in s
Contains(s, sub) == FindFrom(s, sub, 1) > 0

\* s.split(sub)[0]
SplitFirst(s, sub) ==
    LET at == FindFrom(s, sub, 1)
    IN  IF at = 0 THEN s ELSE SubSeq(s, 1, at - 1)

\* len(clean) == 4 and clean.startswith('19') or clean.startswith('20')
LooksLikeYear(clean) ==
    Len(clean) = 4 /\ (startswith(clean, <<"1", "9">>) \/ startswith(clean, <<"2", "0">>))

\* ------------------------------------------------------------------------
\* Page 1 header fields (services/field_extractor.py)

\* FieldExtractor._extract_ein
_extract_ein(t) ==
    LET ein_matches == FindAll(<<WB, Open(1), Rep(ClsDigit, 2, 2), Lit("-"),
                                 Rep(ClsDigit, 7, 7), Close(1), WB>>, t)
        ein_section == Search(<<Lit("Address change"), Star(ClsNotNL), Open(1),
                                Rep(ClsDigit, 9, 9), Close(1)>>, t)
        digits == Group(t, ein_section, 1)
    IN  IF Len(ein_matches) > 0 THEN ein_matches[1]
        ELSE IF ein_section.ok
             THEN SubSeq(digits, 1, 2) \o <<"-">> \o SubSeq(digits, 3, Len(digits))
             ELSE None

\* Gross\s+receipts
GrossReceiptsRe == <<Lit("Gross"), Plus(ClsSpace), Lit("receipts")>>

\* ([\d,]+(?:\.\d{2})?)
AmountCentsGroup ==
    <<Open(1), Plus(ClsDigitComma), Opt(<<Lit("."), Rep(ClsDigit, 2, 2)>>), Close(1)>>

\* ([\d,]+)
NumberGroup == <<Open(1), Plus(ClsDigitComma), Close(1)>>

\* FieldExtractor._extract_gross_receipts
_extract_gross_receipts(t) ==
    LET m1 == Search(GrossReceiptsRe \o <<Star(ClsSpace), Lit("$"), Star(ClsSpace)>>
                     \o AmountCentsGroup, t)
        m2 == Search(GrossReceiptsRe \o <<LazyStar(ClsNotNL), Lit("$"), Star(ClsSpace)>>
                     \o AmountCentsGroup, t)
        m3 == Search(GrossReceiptsRe \o <<Star(ClsNotNL)>>, t)
        amounts == FindAll(<<Open(1), Rep(ClsDigitComma, 4, -1),
                             Opt(<<Lit("."), Rep(ClsDigit, 2, 2)>>), Close(1)>>,
                           Group0(t, m3))
        valid == SelectSeq(amounts, _is_valid_monetary_amount)
    IN  IF m1.ok /\ _is_valid_monetary_amount(Group(t, m1, 1)) THEN Group(t, m1, 1)
        ELSE IF m2.ok /\ _is_valid_monetary_amount(Group(t, m2, 1)) THEN Group(t, m2, 1)
        ELSE IF m3.ok /\ Len(valid) > 0 THEN Last(valid)
        ELSE None

\* ------------------------------------------------------------------------
\* Precise fixes (services/field_extractor_precise.py)

\* extract_gross_receipts_precise
extract_gross_receipts_precise(t) ==
    LET m1 == Search(<<Open(1), Plus(ClsDigitComma), Opt(<<Lit(".")>>), Close(1),
                       Star(ClsSpace), Plus(ClsNL), Star(ClsSpace), Lit("G"),
                       Plus(ClsSpace)>> \o GrossReceiptsRe
                     \o <<Star(ClsSpace), Lit("$")>>, t)
        amount1 == rstrip(Group(t, m1, 1), ".")
        m2 == Search(<<WB, Lit("G"), Plus(ClsSpace)>> \o GrossReceiptsRe
                     \o <<Star(ClsSpace), Lit("$"), Star(ClsSpace)>> \o NumberGroup, t)
        amount2 == Group(t, m2, 1)
        m3 == Search(GrossReceiptsRe \o <<Star(ClsSpace), Lit("$"), Star(ClsSpace)>>
                     \o NumberGroup, t)
        amount3 == Group(t, m3, 1)
    IN  IF m1.ok /\ Len(Remove(amount1, {","})) >= 5 THEN amount1
        ELSE IF m2.ok /\ Len(Remove(amount2, {","})) >= 5 THEN amount2
        ELSE IF m3.ok /\ _is_valid_monetary_amount(amount3) THEN amount3
        ELSE None

\* \b12\b
Row12Re == <<WB, Lit("1"), Lit("2"), WB>>

TotalRevenueRe == <<Lit("Total revenue")>>

\* The patterns of extract_part8_total_revenue_precise
PreciseTotalRevenuePatterns ==
    << Row12Re \o <<Star(ClsNotNL)>> \o TotalRevenueRe \o <<LazyStar(ClsNotNL)>>
         \o NumberGroup,
       TotalRevenueRe \o <<Star(ClsNotNL)>> \o Row12Re \o <<LazyStar(ClsNotNL)>>
         \o NumberGroup,
       Row12Re \o <<Star(ClsNotNL)>> \o TotalRevenueRe
         \o <<LazyStar(ClsNotNL), Lit("See instructions"), LazyStar(ClsNotNL)>>
         \o NumberGroup >>

RECURSIVE PreciseTotalRevenueFrom(_, _)
PreciseTotalRevenueFrom(section, k) ==
    IF k > Len(PreciseTotalRevenuePatterns) THEN None
    ELSE
      LET m == Search(PreciseTotalRevenuePatterns[k], section)
          amount == Group(section, m, 1)
          clean == Remove(amount, {","})
      IN  IF m.ok /\ Len(clean) >= 5 /\ ~LooksLikeYear(clean) THEN amount
          ELSE PreciseTotalRevenueFrom(section, k + 1)

\* extract_part8_total_revenue_precise
extract_part8_total_revenue_precise(section) == PreciseTotalRevenueFrom(section, 1)

\* section[start:start+200] of the precise extractors
PRECISE_WINDOW == 200

\* extract_part9_affiliate_payments_precise
extract_part9_affiliate_payments_precise(section) ==
    LET m == Search(<<Lit("Payments to affiliates"), Star(ClsNotNL), Plus(ClsNL),
                      Star(ClsSpace), Lit("2"), Lit("1"), Star(ClsSpace), One(ClsNL)>>,
                    section)
        window == Slice(section, m.start - 1, m.start - 1 + PRECISE_WINDOW)
        before_next_row ==
            IF Contains(window, <<"\n", "2", "2", "\n">>)
            THEN SplitFirst(window, <<"\n", "2", "2", "\n">>)
            ELSE IF Contains(window, <<"Depreciation">>)
                 THEN SplitFirst(window, <<"Depreciation">>)
                 ELSE window
        amount_match == Search(NumberGroup, before_next_row)
        fallback == Search(<<WB, Lit("2"), Lit("1"), WB, Star(ClsNotNL),
                             Lit("Payments to affiliates"), LazyStar(ClsNotNL)>>
                           \o NumberGroup, section)
    IN  IF m.ok
        THEN IF amount_match.ok
                 /\ Contains(SubSeq(before_next_row, 1, amount_match.start - 1),
                             <<"2", "1">>)
             THEN rstrip(Group(before_next_row, amount_match, 1), ".")
             ELSE <<>>
        ELSE IF fallback.ok THEN rstrip(Group(section, fallback, 1), ".")
        ELSE None

\* ------------------------------------------------------------------------
\* Enhancements (services/field_extractor_enhanced.py)

\* The patterns of extract_total_revenue_enhanced
EnhancedTotalRevenuePatterns ==
    << Row12Re \o <<Star(ClsNotDigit)>> \o TotalRevenueRe \o <<Star(ClsNotNL)>>,
       TotalRevenueRe \o <<Star(ClsNotNL)>> \o Row12Re,
       TotalRevenueRe
         \o <<Star(ClsNotNL),
              Alt(<< <<Lit("See instructions")>>, Str(<<"line", " ", "1", "2">>) >>)>>,
       <<Opt(<<Alt(<< <<Lit("Row")>>, <<Lit("Line")>> >>)>>), Star(ClsSpace),
         Lit("1"), Lit("2"), Star(ClsNotDigit)>> \o TotalRevenueRe >>

\* section[start:end+200]
ENHANCED_WINDOW == 200

\* The loop over the amounts: the first that is no year and is 5 digits
\* long or has a comma
RECURSIVE FirstRevenueAmount(_, _)
FirstRevenueAmount(amounts, k) ==
    IF k > Len(amounts) THEN None
    ELSE
      LET amount == amounts[k]
          clean == Remove(amount, {",", "."})
      IN  IF LooksLikeYear(clean) THEN FirstRevenueAmount(amounts, k + 1)
          ELSE IF Len(clean) >= 5 \/ \E i \in 1..Len(amount) : amount[i] = ","
               THEN amount
               ELSE FirstRevenueAmount(amounts, k + 1)

RECURSIVE EnhancedTotalRevenueFrom(_, _)
EnhancedTotalRevenueFrom(section, k) ==
    IF k > Len(EnhancedTotalRevenuePatterns) THEN None
    ELSE
      LET m == Search(EnhancedTotalRevenuePatterns[k], section)
          extended == Slice(section, m.start - 1, m.end - 1 + ENHANCED_WINDOW)
          found == IF m.ok
                   THEN FirstRevenueAmount(_find_amounts_in_text(extended), 1)
                   ELSE None
      IN  IF found # None THEN found ELSE EnhancedTotalRevenueFrom(section, k + 1)

\* extract_total_revenue_enhanced
extract_total_revenue_enhanced(section) == EnhancedTotalRevenueFrom(section, 1)

PartIIRe == <<Lit("Part"), Plus(ClsSpace), Lit("II")>>

\* extract_page1_enhanced, its total_revenue entry: the summary-table value
\* of lines 118-153 is overwritten at line 191
extract_page1_enhanced(t) ==
    LET part1 == Search(<<Lit("Part"), Plus(ClsSpace), Lit("I"), Plus(ClsSpace),
                          Lit("Summary"), Open(1), LazyStar(ClsAny), Close(1),
                          Alt(<<PartIIRe, <<Lit("Statement of Program Service")>> >>)>>, t)
        other == Search(<<Alt(<< <<Lit("Contributions and grants")>>,
                                 Str(<<"Row", " ", "8">>) >>),
                          Open(1), LazyStar(ClsAny), Close(1),
                          Alt(<<PartIIRe,
                                <<Lit("Part"), Plus(ClsSpace), Lit("III")>> >>)>>, t)
        section == IF part1.ok THEN Group(t, part1, 1)
                   ELSE IF other.ok THEN Group(t, other, 1)
                   ELSE Slice(t, 0, 10000)
    IN  [total_revenue |-> extract_total_revenue_enhanced(section)]

\* extract_part8_enhanced, its total_revenue entry
extract_part8_enhanced(section) ==
    [total_revenue |-> extract_total_revenue_enhanced(section)]

\* ------------------------------------------------------------------------
\* Sections and stages of the hybrid pipeline
\* (services/field_extractor_hybrid.py, field_extractor.py, field_extractor_precise.py)

\* r'Part VIII\s+Statement of Revenue(.*?)(?:Part IX\s+Statement of Functional|$)'
PartVIIISectionRe ==
    <<Lit("Part VIII"), Plus(ClsSpace), Lit("Statement of Revenue"),
      Open(1), LazyStar(ClsAny), Close(1),
      Alt(<< <<Lit("Part IX"), Plus(ClsSpace), Lit("Statement of Functional")>>,
             <<Dollar>> >>)>>

\* r'Part IX\s+Statement of Functional(.*?)(?:Part X\s|$)'
PartIXSectionRe ==
    <<Lit("Part IX"), Plus(ClsSpace), Lit("Statement of Functional"),
      Open(1), LazyStar(ClsAny), Close(1),
      Alt(<< <<Lit("Part X"), One(ClsSpace)>>, <<Dollar>> >>)>>

\* part_match.group(1) if part_match else text
SectionOf(re, t) ==
    LET part_match == Search(re, t)
    IN  IF part_match.ok THEN Group(t, part_match, 1) ELSE t

\* _extract_page1_fields, _extract_part_viii_fields and _extract_part_ix_fields
BaseExtraction(t) ==
    LET section8 == _normalize_spaces(SectionOf(PartVIIISectionRe, t))
        section9 == _normalize_spaces(SectionOf(PartIXSectionRe, t))
    IN  [page1 |->
           [employer_identification_number |-> _extract_ein(t),
            gross_receipts |-> _extract_gross_receipts(t),
            total_revenue |->
                _extract_current_year_value(t, <<"1", "2">>, TotalRevenueRe)],
         part_viii |->
           [total_revenue |->
                OrElse(_find_first_valid_amount(section8,
                           Row12Re \o <<Plus(ClsSpace)>> \o TotalRevenueRe),
                       _find_first_valid_amount(section8, TotalRevenueRe))],
         part_ix |->
           [affiliate_payments |->
                extract_p9(section9, <<"2", "1">>, <<Lit("Payments to affiliates")>>)]]

\* apply_precise_fixes
apply_precise_fixes(f, full_text) ==
    [page1 |->
       [f.page1 EXCEPT !.gross_receipts =
            OrElse(extract_gross_receipts_precise(full_text), @)],
     part_viii |->
       [f.part_viii EXCEPT !.total_revenue =
            OrElse(extract_part8_total_revenue_precise(
                       SectionOf(PartVIIISectionRe, full_text)), @)],
     part_ix |->
       [f.part_ix EXCEPT !.affiliate_payments =
            With(extract_part9_affiliate_payments_precise(
                     SectionOf(PartIXSectionRe, full_text)),
                 LAMBDA precise_21 :
                   IF precise_21 # None THEN precise_21
                   ELSE f.part_ix.affiliate_payments)]]

\* Step 4.5 of extract_all_fields_v2_hybrid
ApplyEnhancements(f, form_990_text) ==
    [page1 |->
       [f.page1 EXCEPT !.total_revenue =
            IF ~Truthy(f.page1.total_revenue)
            THEN OrElse(extract_page1_enhanced(form_990_text).total_revenue,
                        f.page1.total_revenue)
            ELSE f.page1.total_revenue],
     part_viii |->
       [f.part_viii EXCEPT !.total_revenue =
            With(extract_part8_enhanced(
                     SectionOf(PartVIIISectionRe, form_990_text)).total_revenue,
                 LAMBDA enhanced_total_revenue :
                   IF Truthy(f.part_viii.total_revenue)
                         /\ ~LooksLikeYear(Remove(f.part_viii.total_revenue, {",", "."}))
                   THEN f.part_viii.total_revenue
                   ELSE OrElse(enhanced_total_revenue, f.part_viii.total_revenue))],
     part_ix |-> f.part_ix]

\* ------------------------------------------------------------------------
\* Specification of the row lookups: one row line "<code> <label> <amount>",
\* the code being the field's own or a longer one that contains it, between
\* an optional line before and an optional line after, handed to the
\* extractor of the field bound to the code.

Amt5000 == <<"5", ",", "0", "0", "0">>

Amt3000 == <<"3", ",", "0", "0", "0">>

Amt8000 == <<"8", ",", "0", "0", "0">>

Amt7000 == <<"7", ",", "0", "0", "0">>

Amt500 == <<"5", "0", "0">>

\* The fields looked up: extractor, row code and label, with the amounts a
\* row line may carry (one of them begins with the row code).
RowFields ==
    { [fn |-> "extract_p8", code |-> <<"3">>, label |-> "Investment income",
       amounts |-> {<<>>, Amt5000, Amt3000, Amt500}],
      [fn |-> "extract_p9", code |-> <<"1">>, label |-> "Grants to domestic organizations",
       amounts |-> {<<>>, Amt5000, <<"1", ",", "0", "0", "0">>, Amt500}],
      [fn |-> "_extract_current_year_value", code |-> <<"8">>,
       label |-> "Contributions and grants",
       amounts |-> {<<>>, Amt5000, Amt8000, Amt500}] }

\* The codes a row line may bear for a field of code c
RowCodes(c) == {c, <<"1">> \o c, c \o <<"1">>, <<"2">> \o c \o <<"a">>}

LinesBefore == {<<>>, <<"Revenue", "\n">>, <<"9", " ", "Other", " ">> \o Amt7000 \o <<"\n">>}

LinesAfter == {<<>>, <<"\n">> \o Amt7000, <<"\n", "\n", "Other", " ">> \o Amt7000 \o <<"\n">>}

RowLine(code, label, amount) ==
    code \o <<" ", label>> \o (IF amount = <<>> THEN <<>> ELSE <<" ">> \o amount)

RowText(in) == in.before \o RowLine(in.code, in.field.label, in.amount) \o in.after

InitRow ==
    /\ \E f \in RowFields :
         row_input \in [field : {f}, code : RowCodes(f.code), amount : f.amounts,
                        before : LinesBefore, after : LinesAfter]
    /\ row_value = NotYet
    /\ AmountIdle
    /\ ScorerIdle
    /\ PipelineIdle
    /\ ServiceIdle

ExtractP8 ==
    /\ row_value = NotYet
    /\ row_input.field.fn = "extract_p8"
    /\ row_value' = extract_p8(_normalize_spaces(RowText(row_input)),
                               row_input.field.code, Str(<<row_input.field.label>>))
    /\ UNCHANGED <<row_input, AmountVars, ScorerVars, PipelineVars,
                   ServiceVars>>

ExtractP9 ==
    /\ row_value = NotYet
    /\ row_input.field.fn = "extract_p9"
    /\ row_value' = extract_p9(_normalize_spaces(RowText(row_input)),
                               row_input.field.code, Str(<<row_input.field.label>>))
    /\ UNCHANGED <<row_input, AmountVars, ScorerVars, PipelineVars,
                   ServiceVars>>

ExtractCurrentYear ==
    /\ row_value = NotYet
    /\ row_input.field.fn = "_extract_current_year_value"
    /\ row_value' = _extract_current_year_value(RowText(row_input),
                        row_input.field.code, Str(<<row_input.field.label>>))
    /\ UNCHANGED <<row_input, AmountVars, ScorerVars, PipelineVars,
                   ServiceVars>>

NextRow == ExtractP8 \/ ExtractP9 \/ ExtractCurrentYear

SpecRow == InitRow /\ [][NextRow]_vars

\* The row line bears a longer code than the field's and carries an amount.
LongerCodeLine ==
    /\ row_value # NotYet
    /\ row_input.code # row_input.field.code
    /\ _is_valid_monetary_amount(row_input.amount)

\* C3 as stated: when the only line with the field's label bears a longer
\* row code containing the field's code, the field never takes the amount on
\* that line - for extract_p8, extract_p9 and _extract_current_year_value.
C3_RowCodeBoundary == LongerCodeLine => row_value # row_input.amount

\* ------------------------------------------------------------------------
\* Confidence scorer (services/confidence_scorer.py, config/extraction_config.py)
\*
\* A confidence, and every other float of [0, 1], is an integer number of
\* 1/Whole; Pct(n) is n hundredths.  The unit makes the weighted sums of the
\* pipeline exact.  An overall score is an integer number of
\* 1/(Whole * ScoreScale): the mean of up to 7 confidences is exact in that unit.

Whole == 100 * 60

Pct(n) == n * 60

critical_fields ==
    << "employer_identification_number", "gross_receipts", "total_revenue",
       "total_contributions", "total_assets", "net_assets_or_fund_balances",
       "total_functional_expenses_a" >>

CriticalSet == {critical_fields[i] : i \in 1..Len(critical_fields)}

\* confidence_thresholds.production and .critical_fields, in hundredths
PRODUCTION_THRESHOLD == 70

CRITICAL_THRESHOLD == 50

\* penalty = missing_count * 0.1, in hundredths
MISSING_PENALTY == 10

\* lcm(1..7): sum / len is an integer number of 1/(100 * ScoreScale)
ScoreScale == 2 * 2 * 3 * 5 * 7

RECURSIVE SumSeq(_)
SumSeq(s) == IF Len(s) = 0 THEN 0 ELSE Head(s) + SumSeq(Tail(s))

\* An entry of field_confidences; "field_name in field_confidences" is .supplied
AbsentEntry == [supplied |-> FALSE, value |-> None, confidence |-> 0]

Entry(v, c) == [supplied |-> TRUE, value |-> v, confidence |-> c]

MissingFailure(f) == [kind |-> "Critical field missing", field |-> f]

BelowFailure(f) == [kind |-> "Critical field below threshold", field |-> f]

\* The loop over self.critical_fields (lines 139-151): the scores of the
\* entries with a value, and the failures, in order.
RECURSIVE ScanCritical(_, _, _)
ScanCritical(fcs, i, acc) ==
    IF i > Len(critical_fields) THEN acc
    ELSE
      LET field_name == critical_fields[i]
          fc == fcs[field_name]
          a1 == IF ~fc.supplied THEN acc
                ELSE IF fc.value # None
                THEN [acc EXCEPT !.critical_scores = @ \o <<fc.confidence>>]
                ELSE [acc EXCEPT !.critical_failures = @ \o <<MissingFailure(field_name)>>]
          a2 == IF fc.supplied /\ fc.confidence < Pct(CRITICAL_THRESHOLD)
                THEN [a1 EXCEPT !.critical_failures = @ \o <<BelowFailure(field_name)>>]
                ELSE a1
      IN  ScanCritical(fcs, i + 1, a2)

\* A scorer whose penalty counts only the entries supplied with value None.
Mut_calculate_overall_confidence(fcs, any_other) ==
    LET scan == ScanCritical(fcs, 1, [critical_scores |-> <<>>, critical_failures |-> <<>>])
        n == Len(scan.critical_scores)
        mean == IF n > 0 THEN (SumSeq(scan.critical_scores) * ScoreScale) \div n ELSE 0
        missing_count == Cardinality({f \in CriticalSet : fcs[f].supplied /\ fcs[f].value = None})
        overall == Max(0, mean - missing_count * Pct(MISSING_PENALTY) * ScoreScale)
    IN  [overall_score |-> overall,
         pass_threshold |-> overall >= Pct(PRODUCTION_THRESHOLD) * ScoreScale
                            /\ Len(scan.critical_failures) = 0,
         critical_failures |-> scan.critical_failures]

\* A scorer that applies no penalty for missing critical fields.
Mut_overall_without_penalty(fcs, any_other) ==
    LET scan == ScanCritical(fcs, 1, [critical_scores |-> <<>>, critical_failures |-> <<>>])
        n == Len(scan.critical_scores)
        overall == IF n > 0 THEN (SumSeq(scan.critical_scores) * ScoreScale) \div n ELSE 0
    IN  [overall_score |-> overall,
         pass_threshold |-> overall >= Pct(PRODUCTION_THRESHOLD) * ScoreScale
                            /\ Len(scan.critical_failures) = 0,
         critical_failures |-> scan.critical_failures]

\* ConfidenceScorer.calculate_overall_confidence; any_other says that the map
\* holds an entry for a field that is not critical.
calculate_overall_confidence(fcs, any_other) ==
    IF ~any_other /\ \A f \in CriticalSet : ~fcs[f].supplied
    THEN [overall_score |-> 0, pass_threshold |-> FALSE,
          critical_failures |-> << [kind |-> "No fields extracted", field |-> ""] >>]
    ELSE
      LET scan == ScanCritical(fcs, 1, [critical_scores |-> <<>>, critical_failures |-> <<>>])
          n == Len(scan.critical_scores)
          mean == IF n > 0 THEN (SumSeq(scan.critical_scores) * ScoreScale) \div n ELSE 0
          missing_count == Len(critical_fields) - n
          penalty == missing_count * Pct(MISSING_PENALTY) * ScoreScale
          overall == Max(0, mean - penalty)
      IN  [overall_score |-> overall,
           pass_threshold |-> overall >= Pct(PRODUCTION_THRESHOLD) * ScoreScale
                              /\ Len(scan.critical_failures) = 0,
           critical_failures |-> scan.critical_failures]

\* ------------------------------------------------------------------------
\* Specification of the scorer: every map over the critical fields with each
\* entry absent, supplied without a value, or supplied with a value at a low
\* or a high confidence; then one replacement of a present entry by None.

ConfidenceLevels == {Pct(40), Pct(100)}

EntryChoices ==
    {AbsentEntry, Entry(None, 0)} \cup {Entry(<<"v">>, c) : c \in ConfidenceLevels}

InitScore ==
    /\ field_confidences \in
         [fields : [CriticalSet -> EntryChoices], any_other : BOOLEAN]
    /\ doc_confidence = Unset
    /\ prev_confidence = Unset
    /\ replaced = Unset
    /\ AmountIdle
    /\ RowIdle
    /\ PipelineIdle
    /\ ServiceIdle

Score ==
    /\ doc_confidence = Unset
    /\ doc_confidence' = calculate_overall_confidence(field_confidences.fields,
                                                      field_confidences.any_other)
    /\ UNCHANGED <<field_confidences, prev_confidence, replaced, AmountVars, RowVars,
                   PipelineVars,
                   ServiceVars>>

\* The same input with one present critical field replaced by None, scored again.
ReplaceByNone(f) ==
    /\ doc_confidence # Unset
    /\ prev_confidence = Unset
    /\ field_confidences.fields[f].supplied
    /\ field_confidences.fields[f].value # None
    /\ replaced' = [field |-> f, entry |-> field_confidences.fields[f]]
    /\ prev_confidence' = doc_confidence
    /\ field_confidences' =
         [field_confidences EXCEPT !.fields[f].value = None]
    /\ doc_confidence' =
         calculate_overall_confidence(field_confidences'.fields,
                                      field_confidences'.any_other)
    /\ UNCHANGED <<AmountVars, RowVars, PipelineVars,
                   ServiceVars>>

NextScore == Score \/ \E f \in CriticalSet : ReplaceByNone(f)

SpecScore == InitScore /\ [][NextScore]_vars

\* The claims' own reading of the input map
PresentFields(fcs) == {f \in CriticalSet : fcs[f].supplied /\ fcs[f].value # None}

MissingFields(fcs) == CriticalSet \ PresentFields(fcs)

RECURSIVE SumOver(_, _)
SumOver(fcs, S) ==
    IF S = {} THEN 0
    ELSE LET f == CHOOSE x \in S : TRUE
         IN  fcs[f].confidence + SumOver(fcs, S \ {f})

FailureFields(d, kind) ==
    {d.critical_failures[i].field :
        i \in {j \in 1..Len(d.critical_failures) : d.critical_failures[j].kind = kind}}

Scored == doc_confidence # Unset

\* C6: overall_score = max(0, M - 0.1 * K), M the mean confidence of the
\* critical fields that have a value (0 when none), K the number of the 7
\* critical fields that are missing (value None or not supplied).  The
\* equation is stated multiplied by the number of present fields.
C6_OverallScore ==
    Scored =>
      LET fcs == field_confidences.fields
          P == PresentFields(fcs)
          n == Cardinality(P)
          K == Cardinality(MissingFields(fcs))
          s == doc_confidence.overall_score
      IN  /\ s >= 0
          /\ n = 0 => s = 0
          /\ n > 0 =>
               LET lhs == SumOver(fcs, P) * ScoreScale - n * K * Pct(MISSING_PENALTY) * ScoreScale
               IN  IF lhs >= 0 THEN s * n = lhs ELSE s = 0

\* Some fields are present, some missing, and the score is strictly positive
\* after the penalty.
C6_Witness ==
    /\ Scored
    /\ Cardinality(PresentFields(field_confidences.fields)) = 5
    /\ \E f \in CriticalSet : ~field_confidences.fields[f].supplied
    /\ \E f \in PresentFields(field_confidences.fields) :
          field_confidences.fields[f].confidence < Pct(CRITICAL_THRESHOLD)
    /\ doc_confidence.overall_score > 0

\* C7 as stated: pass_threshold iff overall_score >= 0.70 and no critical
\* field is missing (value None or not supplied) or below 0.50.
C7_PassThreshold ==
    Scored =>
      LET fcs == field_confidences.fields
          failure == \/ MissingFields(fcs) # {}
                     \/ \E f \in CriticalSet :
                          fcs[f].supplied /\ fcs[f].confidence < Pct(CRITICAL_THRESHOLD)
      IN  doc_confidence.pass_threshold =
            (doc_confidence.overall_score >= Pct(PRODUCTION_THRESHOLD) * ScoreScale /\ ~failure)

C9_EndToEnd ==
    Scored =>
      LET fcs == field_confidences.fields
          P == PresentFields(fcs)
          allHigh == \A f \in P : fcs[f].confidence >= Pct(90)
      IN  /\ (Cardinality(P) = 7 /\ allHigh) => doc_confidence.pass_threshold
          /\ (Cardinality(P) = 4 /\ allHigh) =>
                /\ ~doc_confidence.pass_threshold
                /\ doc_confidence.critical_failures # <<>>
                /\ MissingFields(fcs) \subseteq
                     FailureFields(doc_confidence, "Critical field missing")

\* ------------------------------------------------------------------------
\* Conversion, cross-validation and scoring of the hybrid pipeline
\* (services/field_extractor_hybrid.py, validators/cross_validator.py,
\*  confidence_scorer.py) and the endpoint (main.py)

\* A make_field_with_confidence that keeps the source of a missing field.
Mut_make_field_with_confidence(v, avg_ocr_quality) ==
    IF v = None
    THEN [value |-> None, confidence |-> 0, source |-> "text_pattern",
          warnings |-> <<"Field not found">>]
    ELSE [value |-> v,
          confidence |-> (Pct(85) * (Whole \div 2 + avg_ocr_quality \div 2)) \div Whole,
          source |-> "text_pattern", warnings |-> <<>>]

\* make_field_with_confidence of extract_all_fields_v2_hybrid
make_field_with_confidence(v, avg_ocr_quality) ==
    IF v = None
    THEN [value |-> None, confidence |-> 0, source |-> "none",
          warnings |-> <<"Field not found">>]
    ELSE [value |-> v,
          confidence |-> (Pct(85) * (Whole \div 2 + avg_ocr_quality \div 2)) \div Whole,
          source |-> "text_pattern", warnings |-> <<>>]

\* _parse_number could not parse
NoNumber == 0 - 1

\* CrossValidator._parse_number, in cents, of the texts the extractors
\* return: digits and commas, with or without two decimals
_parse_number(v) ==
    IF ~Truthy(v) THEN NoNumber
    ELSE
      LET clean == Remove(v, {","})
          n == Len(clean)
      IN  IF isdigit(clean) THEN 100 * int(clean)
          ELSE IF n >= 4 /\ clean[n - 2] = "." /\ isdigit(SubSeq(clean, 1, n - 3))
                  /\ isdigit(SubSeq(clean, n - 1, n))
               THEN 100 * int(SubSeq(clean, 1, n - 3)) + int(SubSeq(clean, n - 1, n))
               ELSE NoNumber

REVENUE_TOLERANCE_PERCENT == 2

Abs(n) == IF n < 0 THEN 0 - n ELSE n

\* CrossValidator._values_match: abs(num1 - num2) / avg * 100 <= tolerance
_values_match(value1, value2) ==
    LET num1 == _parse_number(value1)
        num2 == _parse_number(value2)
    IN  IF num1 = NoNumber \/ num2 = NoNumber THEN FALSE
        ELSE IF num1 + num2 = 0 THEN num1 = num2
        ELSE Abs(num1 - num2) * 200 <= REVENUE_TOLERANCE_PERCENT * (num1 + num2)

\* CrossValidator._get_value on a dict
_get_value(obj, field_name) ==
    IF field_name \in DOMAIN obj THEN obj[field_name] ELSE None

\* One pair of validate_revenue_consistency
CheckPair(value1, value2, mismatch, only_one) ==
    [errors |-> IF Truthy(value1) /\ Truthy(value2) /\ ~_values_match(value1, value2)
                THEN <<mismatch>> ELSE <<>>,
     warnings |-> IF ~(Truthy(value1) /\ Truthy(value2)) /\ (Truthy(value1) \/ Truthy(value2))
                  THEN <<only_one>> ELSE <<>>]

\* CrossValidator.validate_revenue_consistency
validate_revenue_consistency(page1_fields, part8_fields) ==
    LET contrib == CheckPair(_get_value(page1_fields, "total_contributions"),
                             _get_value(part8_fields, "contributions_total"),
                             "Contributions mismatch",
                             "Contributions found in only one location")
        revenue == CheckPair(_get_value(page1_fields, "total_revenue"),
                             _get_value(part8_fields, "total_revenue"),
                             "Total revenue mismatch",
                             "Total revenue found in only one location")
        errors == contrib.errors \o revenue.errors
    IN  [passed |-> Len(errors) = 0,
         confidence_adjustment |-> IF Len(errors) = 0 THEN Whole ELSE Whole \div 2,
         errors |-> errors,
         warnings |-> contrib.warnings \o revenue.warnings]

\* difference > 10, in dollars
ROUNDING_ALLOWANCE == 10

\* An expense check that has no allowance for rounding.
Mut_validate_expense_allocation(part9_fields) ==
    LET total_a == _get_value(part9_fields, "total_functional_expenses_a")
        total_b == _get_value(part9_fields, "total_functional_expenses_b")
        total_c == _get_value(part9_fields, "total_functional_expenses_c")
        total_d == _get_value(part9_fields, "total_functional_expenses_d")
        nums == <<_parse_number(total_a), _parse_number(total_b),
                  _parse_number(total_c), _parse_number(total_d)>>
        errors == IF /\ Truthy(total_a) /\ Truthy(total_b) /\ Truthy(total_c) /\ Truthy(total_d)
                     /\ \A i \in 1..4 : nums[i] # NoNumber
                     /\ Abs(nums[1] - (nums[2] + nums[3] + nums[4])) > 0
                  THEN <<"Expense allocation mismatch">> ELSE <<>>
    IN  [passed |-> Len(errors) = 0,
         confidence_adjustment |-> IF Len(errors) = 0 THEN Whole ELSE Pct(70),
         errors |-> errors,
         warnings |-> <<>>]

\* CrossValidator.validate_expense_allocation
validate_expense_allocation(part9_fields) ==
    LET total_a == _get_value(part9_fields, "total_functional_expenses_a")
        total_b == _get_value(part9_fields, "total_functional_expenses_b")
        total_c == _get_value(part9_fields, "total_functional_expenses_c")
        total_d == _get_value(part9_fields, "total_functional_expenses_d")
        nums == <<_parse_number(total_a), _parse_number(total_b),
                  _parse_number(total_c), _parse_number(total_d)>>
        errors == IF /\ Truthy(total_a) /\ Truthy(total_b) /\ Truthy(total_c) /\ Truthy(total_d)
                     /\ \A i \in 1..4 : nums[i] # NoNumber
                     /\ Abs(nums[1] - (nums[2] + nums[3] + nums[4])) > 100 * ROUNDING_ALLOWANCE
                  THEN <<"Expense allocation mismatch">> ELSE <<>>
    IN  [passed |-> Len(errors) = 0,
         confidence_adjustment |-> IF Len(errors) = 0 THEN Whole ELSE Pct(70),
         errors |-> errors,
         warnings |-> <<>>]

\* CrossValidator.validate_balance_sheet
validate_balance_sheet(page1_fields) ==
    LET total_assets == _get_value(page1_fields, "total_assets")
        total_liabilities == _get_value(page1_fields, "total_liabilities")
        net_assets == _get_value(page1_fields, "net_assets_or_fund_balances")
        nums == <<_parse_number(total_assets), _parse_number(total_liabilities),
                  _parse_number(net_assets)>>
        errors == IF /\ Truthy(total_assets) /\ Truthy(total_liabilities) /\ Truthy(net_assets)
                     /\ \A i \in 1..3 : nums[i] # NoNumber
                     /\ Abs(nums[3] - (nums[1] - nums[2])) > 100 * ROUNDING_ALLOWANCE
                  THEN <<"Balance sheet mismatch">> ELSE <<>>
    IN  [passed |-> Len(errors) = 0,
         confidence_adjustment |-> IF Len(errors) = 0 THEN Whole ELSE Pct(60),
         errors |-> errors,
         warnings |-> <<>>]

\* The number of sub-checks of validate_all
TOTAL_CHECKS == 3

\* A validate_all that a warning fails.
Mut_validate_all(page1_fields, part8_fields, part9_fields) ==
    With(<<validate_revenue_consistency(page1_fields, part8_fields),
           validate_expense_allocation(part9_fields),
           validate_balance_sheet(page1_fields)>>,
         LAMBDA results :
           With([passed_checks |->
                     Cardinality({i \in 1..TOTAL_CHECKS : results[i].passed}),
                 errors |-> results[1].errors \o results[2].errors \o results[3].errors,
                 warnings |-> results[1].warnings \o results[2].warnings
                              \o results[3].warnings],
                LAMBDA all :
                  [passed |-> Len(all.errors) = 0 /\ Len(all.warnings) = 0,
                   confidence_adjustment |->
                       Whole \div 2 + (all.passed_checks * Whole) \div (2 * TOTAL_CHECKS),
                   errors |-> all.errors,
                   warnings |-> all.warnings,
                   checks_passed |-> all.passed_checks,
                   total_checks |-> TOTAL_CHECKS]))

\* CrossValidator.validate_all: the three sub-checks, each counted in
\* total_checks, and the results put together
validate_all(page1_fields, part8_fields, part9_fields) ==
    With(<<validate_revenue_consistency(page1_fields, part8_fields),
           validate_expense_allocation(part9_fields),
           validate_balance_sheet(page1_fields)>>,
         LAMBDA results :
           With([passed_checks |->
                     Cardinality({i \in 1..TOTAL_CHECKS : results[i].passed}),
                 errors |-> results[1].errors \o results[2].errors \o results[3].errors,
                 warnings |-> results[1].warnings \o results[2].warnings
                              \o results[3].warnings],
                LAMBDA all :
                  [passed |-> Len(all.errors) = 0,
                   confidence_adjustment |->
                       Whole \div 2 + (all.passed_checks * Whole) \div (2 * TOTAL_CHECKS),
                   errors |-> all.errors,
                   warnings |-> all.warnings,
                   checks_passed |-> all.passed_checks,
                   total_checks |-> TOTAL_CHECKS]))

\* confidence_weights, in hundredths
WEIGHT_EXTRACTION_SOURCE == 40

WEIGHT_VALIDATION_SCORE == 30

WEIGHT_CROSS_VALIDATION == 20

WEIGHT_OCR_QUALITY == 10

\* ConfidenceScorer._score_extraction_source
_score_extraction_source(source) ==
    CASE source = "table" -> Pct(100)
      [] source = "text_pattern" -> Pct(70)
      [] source = "text_pattern_ocr_fixed" -> Pct(50)
      [] source = "coordinate" -> Pct(80)
      [] source = "ocr" -> Pct(40)
      [] source = "none" -> 0
      [] source = "unknown" -> Pct(30)
      [] OTHER -> Pct(50)

\* ConfidenceScorer.calculate_field_confidence
calculate_field_confidence(v, extraction_source, validation_score, cross_val_score, ocr_quality) ==
    Entry(v, (_score_extraction_source(extraction_source) * WEIGHT_EXTRACTION_SOURCE
              + validation_score * WEIGHT_VALIDATION_SCORE
              + cross_val_score * WEIGHT_CROSS_VALIDATION
              + ocr_quality * WEIGHT_OCR_QUALITY) \div 100)

\* A result whose scorer is given gross_receipts as a third critical field.
Mut_AssembleResult(f, avg_ocr_quality, validation_result) ==
    With(calculate_overall_confidence(
             [c \in CriticalSet |->
                IF c = "employer_identification_number"
                THEN calculate_field_confidence(f.page1.employer_identification_number,
                         "text_pattern",
                         IF Truthy(f.page1.employer_identification_number)
                         THEN Whole ELSE 0,
                         Whole, avg_ocr_quality)
                ELSE IF c = "total_revenue"
                THEN calculate_field_confidence(f.page1.total_revenue, "text_pattern",
                         IF Truthy(f.page1.total_revenue) THEN Whole ELSE 0,
                         validation_result.confidence_adjustment, avg_ocr_quality)
                ELSE IF c = "gross_receipts"
                THEN calculate_field_confidence(f.page1.gross_receipts, "text_pattern",
                         IF Truthy(f.page1.gross_receipts) THEN Whole ELSE 0,
                         Whole, avg_ocr_quality)
                ELSE AbsentEntry],
             FALSE),
         LAMBDA doc :
           [page1 |-> [k \in DOMAIN f.page1 |->
                         make_field_with_confidence(f.page1[k], avg_ocr_quality)],
            part_viii |-> [k \in DOMAIN f.part_viii |->
                         make_field_with_confidence(f.part_viii[k], avg_ocr_quality)],
            part_ix |-> [k \in DOMAIN f.part_ix |->
                         make_field_with_confidence(f.part_ix[k], avg_ocr_quality)],
            overall_confidence |-> doc.overall_score,
            pass_threshold |-> doc.overall_score >= Pct(70) * ScoreScale,
            validation_errors |-> validation_result.errors,
            errors |-> IF doc.overall_score < Pct(70) * ScoreScale
                       THEN doc.critical_failures ELSE <<>>])

\* calculate_overall_confidence on the critical fields the model carries
\* (total_revenue cross-validated, the EIN not) and the result put together
AssembleResult(f, avg_ocr_quality, validation_result) ==
    With(calculate_overall_confidence(
             [c \in CriticalSet |->
                IF c = "employer_identification_number"
                THEN calculate_field_confidence(f.page1.employer_identification_number,
                         "text_pattern",
                         IF Truthy(f.page1.employer_identification_number)
                         THEN Whole ELSE 0,
                         Whole, avg_ocr_quality)
                ELSE IF c = "total_revenue"
                THEN calculate_field_confidence(f.page1.total_revenue, "text_pattern",
                         IF Truthy(f.page1.total_revenue) THEN Whole ELSE 0,
                         validation_result.confidence_adjustment, avg_ocr_quality)
                ELSE AbsentEntry],
             FALSE),
         LAMBDA doc :
           [page1 |-> [k \in DOMAIN f.page1 |->
                         make_field_with_confidence(f.page1[k], avg_ocr_quality)],
            part_viii |-> [k \in DOMAIN f.part_viii |->
                         make_field_with_confidence(f.part_viii[k], avg_ocr_quality)],
            part_ix |-> [k \in DOMAIN f.part_ix |->
                         make_field_with_confidence(f.part_ix[k], avg_ocr_quality)],
            overall_confidence |-> doc.overall_score,
            pass_threshold |-> doc.overall_score >= Pct(70) * ScoreScale,
            validation_errors |-> validation_result.errors,
            errors |-> IF doc.overall_score < Pct(70) * ScoreScale
                       THEN doc.critical_failures ELSE <<>>])

\* Steps 5 to 7 of extract_all_fields_v2_hybrid: the cross-validation of the
\* three dicts and the ExtractionResultV2
BuildResult(f, avg_ocr_quality) ==
    With(validate_all(
             [total_contributions |-> None,
              total_revenue |-> f.page1.total_revenue,
              total_assets |-> None,
              total_liabilities |-> None,
              net_assets_or_fund_balances |-> None],
             [contributions_total |-> None,
              total_revenue |-> f.part_viii.total_revenue],
             [total_functional_expenses_a |-> None,
              total_functional_expenses_b |-> None,
              total_functional_expenses_c |-> None,
              total_functional_expenses_d |-> None]),
         LAMBDA validation_result : AssembleResult(f, avg_ocr_quality, validation_result))

\* An endpoint that drops the data of a rejected extraction.
Mut_extract_form_990_v2(res, fail_fast, confidence_threshold) ==
    IF fail_fast /\ res.overall_confidence < confidence_threshold * ScoreScale
    THEN [success |-> FALSE, data |-> Unset, confidence |-> res.overall_confidence]
    ELSE [success |-> TRUE, data |-> res, confidence |-> res.overall_confidence]

\* extract_form_990_v2 once the pipeline has returned res
extract_form_990_v2(res, fail_fast, confidence_threshold) ==
    IF fail_fast /\ res.overall_confidence < confidence_threshold * ScoreScale
    THEN [success |-> FALSE, data |-> res, confidence |-> res.overall_confidence]
    ELSE [success |-> TRUE, data |-> res, confidence |-> res.overall_confidence]

\* ------------------------------------------------------------------------
\* Specification of the V2 pipeline behind /api/extract/v2: a one-page
\* document made of an optional EIN line, an optional gross receipts line,
\* an optional Page 1 row 12, an optional Part VIII with its row 12 and an
\* optional Part IX with its row 21, at some OCR quality.

Amt50000 == <<"5", "0", ",", "0", "0", "0">>

Year2019 == <<"2", "0", "1", "9">>

Plain5000 == <<"5", "0", "0", "0">>

EinLines == {<<>>, <<"3", "9", "-", "0", "8", "0", "6", "2", "5", "1", "\n">>}

GrossReceiptsLine(amount) ==
    <<"G", " ", "Gross", " ", "receipts", " ", "$", " ">> \o amount \o <<"\n">>

GrossLines == {<<>>, GrossReceiptsLine(Amt50000), GrossReceiptsLine(Amt5000)}

\* A "12 Total revenue" row: the amounts on its line and the line after it
NoRow == [present |-> FALSE, on_line |-> <<>>, next_line |-> <<>>]

Row12(on_line, next_line) == [present |-> TRUE, on_line |-> on_line, next_line |-> next_line]

Page1Rows ==
    { NoRow, Row12(<<Amt50000>>, <<>>), Row12(<<Year2019>>, <<>>),
      Row12(<<Year2019>>, Amt50000), Row12(<<>>, Amt50000) }

Part8Rows ==
    { NoRow, Row12(<<Amt50000>>, <<>>), Row12(<<Year2019>>, <<>>),
      Row12(<<Year2019, Amt50000>>, <<>>), Row12(<<Year2019>>, Plain5000),
      Row12(<<Year2019>>, Amt50000) }

PartIXHeader ==
    <<"Part IX", " ", "Statement of Functional", " ", "Expenses", "\n">>

Part9Lines ==
    { <<>>,
      PartIXHeader \o <<"2", "1", " ", "Payments to affiliates", " ">> \o Amt5000 \o <<"\n">>,
      PartIXHeader \o <<"2", "1", " ", "Payments to affiliates", " ">> \o Amt500 \o <<"\n">>,
      PartIXHeader \o <<"Payments to affiliates", "\n", "2", "1", "\n">> }

\* avg_ocr_quality
OcrQualities == {0, Pct(50), Pct(100)}

RECURSIVE JoinAmounts(_)
JoinAmounts(amounts) ==
    IF Len(amounts) = 0 THEN <<>>
    ELSE <<" ">> \o Head(amounts) \o JoinAmounts(Tail(amounts))

Row12Text(row) ==
    IF ~row.present THEN <<>>
    ELSE <<"1", "2", " ", "Total revenue">> \o JoinAmounts(row.on_line) \o <<"\n">>
         \o (IF row.next_line = <<>> THEN <<>> ELSE row.next_line \o <<"\n">>)

Part8Text(row) ==
    IF ~row.present THEN <<>>
    ELSE <<"Part VIII", " ", "Statement of Revenue", "\n">> \o Row12Text(row)

\* form_990_text
FormText(d) ==
    d.ein \o d.gross \o Row12Text(d.page1) \o Part8Text(d.part8) \o d.part9

InitPipeline ==
    /\ pdf \in [ein : EinLines, gross : GrossLines, page1 : Page1Rows,
                part8 : Part8Rows, part9 : Part9Lines, ocr : OcrQualities]
    /\ stage = "uploaded"
    /\ v1_fields = Unset
    /\ fields = Unset
    /\ result = Unset
    /\ request = Unset
    /\ response = Unset
    /\ AmountIdle
    /\ ScorerIdle
    /\ RowIdle
    /\ ServiceIdle

\* Step 4: the base extraction
ExtractBase ==
    /\ stage = "uploaded"
    /\ fields' = BaseExtraction(FormText(pdf))
    /\ v1_fields' = fields'
    /\ stage' = "v1"
    /\ UNCHANGED <<pdf, result, request, response, AmountVars, ScorerVars, RowVars,
                   ServiceVars>>

\* Step 4.1
ApplyPreciseFixes ==
    /\ stage = "v1"
    /\ fields' = apply_precise_fixes(fields, FormText(pdf))
    /\ stage' = "precise"
    /\ UNCHANGED <<pdf, v1_fields, result, request, response, AmountVars, ScorerVars,
                   RowVars,
                   ServiceVars>>

\* A pipeline that skips step 4.5.
Mut_Enhance ==
    /\ stage = "precise"
    /\ fields' = fields
    /\ stage' = "enhanced"
    /\ UNCHANGED <<pdf, v1_fields, result, request, response, AmountVars, ScorerVars,
                   RowVars,
                   ServiceVars>>

\* Step 4.5
Enhance ==
    /\ stage = "precise"
    /\ fields' = ApplyEnhancements(fields, FormText(pdf))
    /\ stage' = "enhanced"
    /\ UNCHANGED <<pdf, v1_fields, result, request, response, AmountVars, ScorerVars,
                   RowVars,
                   ServiceVars>>

\* Steps 5 to 7 and the return
Finish ==
    /\ stage = "enhanced"
    /\ result' = BuildResult(fields, pdf.ocr)
    /\ stage' = "returned"
    /\ UNCHANGED <<pdf, v1_fields, fields, request, response, AmountVars, ScorerVars,
                   RowVars,
                   ServiceVars>>

\* confidence_threshold of the request
Thresholds == {0, Pct(20), Pct(70)}

\* The endpoint answers a pipeline that returned
Respond ==
    /\ stage = "returned"
    /\ \E fail_fast \in BOOLEAN, confidence_threshold \in Thresholds :
         /\ request' = [fail_fast |-> fail_fast,
                        confidence_threshold |-> confidence_threshold]
         /\ response' = extract_form_990_v2(result, fail_fast, confidence_threshold)
    /\ stage' = "responded"
    /\ UNCHANGED <<pdf, v1_fields, fields, result, AmountVars, ScorerVars, RowVars,
                   ServiceVars>>

\* The except branch of the endpoint: the pipeline raised before returning
ExtractionFails ==
    /\ stage = "uploaded"
    /\ response' = [success |-> FALSE, data |-> Unset, confidence |-> 0]
    /\ stage' = "failed"
    /\ UNCHANGED <<pdf, v1_fields, fields, result, request, AmountVars, ScorerVars,
                   RowVars,
                   ServiceVars>>

\* The upload is not a .pdf file: answered before anything is extracted
RejectUpload ==
    /\ stage = "uploaded"
    /\ response' = [success |-> FALSE, data |-> Unset, confidence |-> 0]
    /\ stage' = "rejected"
    /\ UNCHANGED <<pdf, v1_fields, fields, result, request, AmountVars, ScorerVars,
                   RowVars,
                   ServiceVars>>

NextPipeline ==
    \/ RejectUpload
    \/ ExtractBase
    \/ ApplyPreciseFixes
    \/ Enhance
    \/ Finish
    \/ Respond
    \/ ExtractionFails

SpecPipeline == InitPipeline /\ [][NextPipeline]_vars

\* The monetary fields of a result, as <<section, field>>
MonetaryFields ==
    { <<"page1", "gross_receipts">>, <<"page1", "total_revenue">>,
      <<"part_viii", "total_revenue">>, <<"part_ix", "affiliate_payments">> }

ResultFields == MonetaryFields \cup {<<"page1", "employer_identification_number">>}

FieldOf(res, sf) == res[sf[1]][sf[2]]

\* C2 as stated: after base extraction, precise fixes and enhancements, every
\* monetary field whose final value is neither None nor empty is a valid
\* monetary amount.
C2_FinalValuesValid ==
    result # Unset =>
      \A sf \in MonetaryFields :
         Truthy(FieldOf(result, sf).value) =>
            _is_valid_monetary_amount(FieldOf(result, sf).value)

\* The row 12 whose line the search for a Total revenue field meets first
Row12For(section) ==
    IF section = "page1"
    THEN (IF pdf.page1.present THEN pdf.page1 ELSE pdf.part8)
    ELSE (IF pdf.part8.present THEN pdf.part8 ELSE pdf.page1)

\* The valid amounts that follow the first amount of a row 12, on its line
\* and on the line after it, years left out
NextCandidates(row) ==
    SelectSeq(Tail(row.on_line) \o (IF row.next_line = <<>> THEN <<>> ELSE <<row.next_line>>),
              LAMBDA a : _is_valid_monetary_amount(a) /\ ~LooksLikeYear(a))

\* C4 as stated: when the candidate found for a Total revenue field (Page 1
\* row 12, Part VIII row 12) is a bare 4-digit number beginning with 19 or
\* 20, the final result does not report it, and reports the next valid
\* candidate of the lookahead window whenever there is one.
C4_YearRejected ==
    result # Unset =>
      \A section \in {"page1", "part_viii"} :
         LET candidate == v1_fields[section].total_revenue
             final == result[section].total_revenue.value
             next == NextCandidates(Row12For(section))
         IN  (candidate # None /\ isdigit(candidate) /\ LooksLikeYear(candidate)) =>
                /\ final # candidate
                /\ Len(next) > 0 => final = next[1]

\* C5: in every result of the hybrid pipeline, a field whose value is None
\* has confidence 0.0 and source "none".
C5_MissingFieldShape ==
    result # Unset =>
      \A sf \in ResultFields :
         FieldOf(result, sf).value = None =>
            /\ FieldOf(result, sf).confidence = 0
            /\ FieldOf(result, sf).source = "none"

\* A result with a missing field next to a found one
C5_Witness ==
    /\ result # Unset
    /\ \E sf \in ResultFields : FieldOf(result, sf).value = None
    /\ \E sf \in ResultFields :
          FieldOf(result, sf).value # None /\ FieldOf(result, sf).confidence > 0

\* C10: when the pipeline completes, the response of /api/extract/v2 has
\* success = false with the full data and the confidence if fail_fast is set
\* and overall_confidence < confidence_threshold, and success = true with
\* the data in every other case; the data is never dropped.
C10_ThresholdRejection ==
    (response # Unset /\ result # Unset) =>
       LET rejected == /\ request.fail_fast
                       /\ result.overall_confidence
                            < request.confidence_threshold * ScoreScale
       IN  /\ response.success = ~rejected
           /\ response.data = result
           /\ response.confidence = result.overall_confidence

\* A rejected extraction, with a found field in the data it still carries
C10_Witness ==
    /\ response # Unset
    /\ result # Unset
    /\ request.fail_fast
    /\ result.overall_confidence < request.confidence_threshold * ScoreScale
    /\ result.overall_confidence > 0
    /\ ~response.success
    /\ response.data = result
    /\ response.data.page1.total_revenue.value # None

\* ------------------------------------------------------------------------
\* Specification of the cross-validator: the three dicts hold, for each
\* check, absent values, values that agree, values at and beyond the
\* tolerance, and a value that is no number.  Amounts are whole dollars.

Amt4950 == <<"4", ",", "9", "5", "0">>

Amt4949 == <<"4", ",", "9", "4", "9">>

Amt5050 == <<"5", ",", "0", "5", "0">>

Zero == <<"0">>

NotANumber == <<"N", "/", "A">>

Dollars100000 == <<"1", "0", "0", "0", "0", "0">>

Dollars40000 == <<"4", "0", "0", "0", "0">>

Dollars30000 == <<"3", "0", "0", "0", "0">>

Dollars30010 == <<"3", "0", "0", "1", "0">>

Dollars30011 == <<"3", "0", "0", "1", "1">>

\* <<Page 1 total_contributions, Part VIII contributions_total>>
ContributionPairs ==
    { <<None, None>>, <<Amt5000, None>>, <<Amt5000, Amt5000>>, <<Amt5000, Amt8000>> }

\* <<Page 1 total_revenue, Part VIII total_revenue>>
RevenuePairs ==
    { <<None, None>>, <<Amt5000, None>>, <<None, Amt5000>>, <<<<>>, Amt5000>>,
      <<Amt5000, Amt5000>>, <<Amt4950, Amt5050>>, <<Amt4949, Amt5050>>,
      <<Amt5000, Amt8000>>, <<NotANumber, Amt5000>>, <<Zero, Zero>> }

\* <<total_functional_expenses_a, _b, _c, _d>>
ExpenseTotals ==
    { <<None, None, None, None>>,
      <<Dollars100000, Dollars40000, Dollars30000, Dollars30000>>,
      <<Dollars100000, Dollars40000, Dollars30000, Dollars30010>>,
      <<Dollars100000, Dollars40000, Dollars30000, Dollars30011>>,
      <<Dollars100000, Dollars40000, Dollars30000, None>>,
      <<Dollars100000, Dollars40000, <<>>, Dollars30011>>,
      <<Dollars100000, Dollars40000, Dollars30000, NotANumber>> }

\* <<total_assets, total_liabilities, net_assets_or_fund_balances>>
BalanceSheets ==
    { <<None, None, None>>, <<Amt8000, Amt3000, Amt5000>>,
      <<Amt8000, Amt3000, Amt7000>>, <<Amt8000, None, Amt7000>> }

CrossInput(contrib, revenue, expenses, balance) ==
    [page1 |-> [total_contributions |-> contrib[1],
                total_revenue |-> revenue[1],
                total_assets |-> balance[1],
                total_liabilities |-> balance[2],
                net_assets_or_fund_balances |-> balance[3]],
     part8 |-> [contributions_total |-> contrib[2],
                total_revenue |-> revenue[2]],
     part9 |-> [total_functional_expenses_a |-> expenses[1],
                total_functional_expenses_b |-> expenses[2],
                total_functional_expenses_c |-> expenses[3],
                total_functional_expenses_d |-> expenses[4]]]

InitValidate ==
    /\ \E contrib \in ContributionPairs, revenue \in RevenuePairs,
          expenses \in ExpenseTotals, balance \in BalanceSheets :
          cross_input = CrossInput(contrib, revenue, expenses, balance)
    /\ validation = Unset
    /\ AmountIdle
    /\ ScorerIdle
    /\ RowIdle
    /\ PipelineIdle
    /\ CombinerIdle
    /\ SectionIdle
    /\ AnalyzerIdle
    /\ EndpointIdle

Validated(call, outcome) ==
    /\ validation = Unset
    /\ validation' = [call |-> call, result |-> outcome]
    /\ UNCHANGED <<cross_input, AmountVars, ScorerVars, EndpointVars, RowVars, PipelineVars,
                   CombinerVars, SectionVars, AnalyzerVars>>

ValidateAll ==
    Validated("validate_all",
              validate_all(cross_input.page1, cross_input.part8, cross_input.part9))

ValidateRevenueConsistency ==
    Validated("validate_revenue_consistency",
              validate_revenue_consistency(cross_input.page1, cross_input.part8))

ValidateExpenseAllocation ==
    Validated("validate_expense_allocation",
              validate_expense_allocation(cross_input.part9))

ValidateBalanceSheet ==
    Validated("validate_balance_sheet", validate_balance_sheet(cross_input.page1))

NextValidate ==
    \/ ValidateAll
    \/ ValidateRevenueConsistency
    \/ ValidateExpenseAllocation
    \/ ValidateBalanceSheet

SpecValidate == InitValidate /\ [][NextValidate]_vars

Called(call) == validation # Unset /\ validation.call = call

\* The values are all present
AllPresent(values) == \A i \in DOMAIN values : Truthy(values[i])

ExpenseOperands ==
    << cross_input.part9.total_functional_expenses_a,
       cross_input.part9.total_functional_expenses_b,
       cross_input.part9.total_functional_expenses_c,
       cross_input.part9.total_functional_expenses_d >>

BalanceOperands ==
    << cross_input.page1.total_assets, cross_input.page1.total_liabilities,
       cross_input.page1.net_assets_or_fund_balances >>

\* The sub-checks of validate_all, with whether each was actually run
SubChecks ==
    << [run |-> TRUE,
        result |-> validate_revenue_consistency(cross_input.page1, cross_input.part8)],
       [run |-> AllPresent(ExpenseOperands),
        result |-> validate_expense_allocation(cross_input.part9)],
       [run |-> AllPresent(BalanceOperands),
        result |-> validate_balance_sheet(cross_input.page1)] >>

ChecksRun == {i \in 1..3 : SubChecks[i].run}

ChecksRunAndPassed == {i \in ChecksRun : SubChecks[i].result.passed}

\* C11 as stated: validate_all returns confidence_adjustment =
\* 0.5 + 0.5 * (checks_passed / checks_run), counting only the sub-checks
\* actually run; it lies in [0.5, 1.0], is 1.0 only when every run check
\* passed and is 0.5 when none passed.
C11_AdjustmentOverRunChecks ==
    Called("validate_all") =>
      LET adjustment == validation.result.confidence_adjustment
          run == Cardinality(ChecksRun)
          passed == Cardinality(ChecksRunAndPassed)
      IN  /\ 2 * run * adjustment = Whole * run + Whole * passed
          /\ adjustment >= Whole \div 2 /\ adjustment <= Whole
          /\ adjustment = Whole => passed = run
          /\ passed = 0 => adjustment = Whole \div 2

\* C12: validate_all returns passed = true if and only if none of the three
\* sub-checks raised an error; warnings never make passed false.
C12_PassedIffNoError ==
    Called("validate_all") =>
      (validation.result.passed <=> \A i \in 1..3 : Len(SubChecks[i].result.errors) = 0)

\* validate_all passed although a value was found in one location only
C12_Witness ==
    /\ Called("validate_all")
    /\ Len(validation.result.warnings) > 0
    /\ validation.result.passed

\* |a - b| / avg(a, b) * 100 > 2 for two numbers; not so when one is none
ExceedsTolerance(value1, value2) ==
    LET a == _parse_number(value1)
        b == _parse_number(value2)
    IN  /\ a # NoNumber /\ b # NoNumber
        /\ a + b > 0
        /\ Abs(a - b) * 200 > REVENUE_TOLERANCE_PERCENT * (a + b)

\* What C13 expects of one pair: its number of errors and of warnings
PairAsStated(value1, value2, errors, warnings) ==
    IF Truthy(value1) /\ Truthy(value2)
    THEN errors = (IF ExceedsTolerance(value1, value2) THEN 1 ELSE 0) /\ warnings = 0
    ELSE IF Truthy(value1) \/ Truthy(value2)
    THEN errors = 0 /\ warnings = 1
    ELSE errors = 0 /\ warnings = 0

CountOf(messages, message) ==
    Cardinality({i \in DOMAIN messages : messages[i] = message})

\* C13 as stated: for each of the two pairs, validate_revenue_consistency
\* raises an error exactly when both values are present and differ by more
\* than 2 percent of their average, emits one warning and no error when
\* exactly one is present, and emits nothing when neither is.
C13_RevenuePairs ==
    Called("validate_revenue_consistency") =>
      /\ PairAsStated(cross_input.page1.total_contributions,
                      cross_input.part8.contributions_total,
                      CountOf(validation.result.errors, "Contributions mismatch"),
                      CountOf(validation.result.warnings,
                              "Contributions found in only one location"))
      /\ PairAsStated(cross_input.page1.total_revenue,
                      cross_input.part8.total_revenue,
                      CountOf(validation.result.errors, "Total revenue mismatch"),
                      CountOf(validation.result.warnings,
                              "Total revenue found in only one location"))

\* |A - (B + C + D)| > 10 for four numbers
ExceedsAllowance(totals) ==
    LET n == [i \in 1..4 |-> _parse_number(totals[i])]
    IN  /\ \A i \in 1..4 : n[i] # NoNumber
        /\ Abs(n[1] - (n[2] + n[3] + n[4])) > 100 * ROUNDING_ALLOWANCE

_analyze_ocr_quality(res) ==
    IF res.text_length = 0 THEN 0
    ELSE Max(0, Whole - (100 * res.artifact_count * Whole) \div res.text_length)

\* _calculate_metrics
_calculate_metrics(res) ==
    LET ocr_quality_score == _analyze_ocr_quality(res)
        completeness_score ==
            Min(Whole, (res.text_length * Whole) \div 20000 + (res.num_words * Whole) \div 2000)
        table_score == Min(Whole, (res.num_tables * Whole) \div 10)
    IN  [extractor_name |-> res.extractor_name,
         ocr_quality_score |-> ocr_quality_score,
         completeness_score |-> completeness_score,
         overall_score |-> 5 * completeness_score + 3 * ocr_quality_score + 2 * table_score]

\* The loop of _select_best over metrics[1:]: the index it ends on
RECURSIVE SelectLoop(_, _, _, _, _)
SelectLoop(metrics, prefer, idx, best_idx, best_score) ==
    IF idx > Len(metrics) THEN best_idx
    ELSE
      LET metric == metrics[idx]
          scanned == /\ prefer
                     /\ metric.extractor_name = "pdfminer"
                     /\ metric.ocr_quality_score < Pct(60)
                     /\ metrics[best_idx].ocr_quality_score < Pct(60)
      IN  IF scanned /\ 10 * metric.overall_score > 9 * best_score
          THEN SelectLoop(metrics, prefer, idx + 1, idx, metric.overall_score)
          ELSE IF metric.overall_score > best_score
          THEN SelectLoop(metrics, prefer, idx + 1, idx, metric.overall_score)
          ELSE SelectLoop(metrics, prefer, idx + 1, best_idx, best_score)

\* ExtractorCombiner._select_best: the index in results of the result returned
_select_best(results, metrics, prefer) ==
    IF Len(results) = 1 THEN 1
    ELSE SelectLoop(metrics, prefer, 2, 1, metrics[1].overall_score)

\* The positions in the list of the extractors whose extract did not raise
RECURSIVE Succeeded(_, _)
Succeeded(extractors, i) ==
    IF i > Len(extractors) THEN <<>>
    ELSE (IF extractors[i].raises THEN <<>> ELSE <<i>>) \o Succeeded(extractors, i + 1)

\* A combiner that gives up as soon as one extractor raises.
Mut_extract_with_best_method(extractors, prefer) ==
    IF Len(extractors) = 0
    THEN [raised |-> TRUE, error |-> "ValueError", backend |-> 0]
    ELSE
      LET ok == Succeeded(extractors, 1)
          results == [k \in 1..Len(ok) |-> extractors[ok[k]]]
          metrics == [k \in 1..Len(ok) |-> _calculate_metrics(results[k])]
      IN  IF Len(ok) < Len(extractors)
          THEN [raised |-> TRUE, error |-> "RuntimeError", backend |-> 0]
          ELSE [raised |-> FALSE, error |-> "",
                backend |-> ok[_select_best(results, metrics, prefer)]]

\* ExtractorCombiner.extract_with_best_method: what it raises, or the
\* position in extractors of the backend whose result it returns
extract_with_best_method(extractors, prefer) ==
    IF Len(extractors) = 0
    THEN [raised |-> TRUE, error |-> "ValueError", backend |-> 0]
    ELSE
      LET ok == Succeeded(extractors, 1)
          results == [k \in 1..Len(ok) |-> extractors[ok[k]]]
          metrics == [k \in 1..Len(ok) |-> _calculate_metrics(results[k])]
      IN  IF Len(ok) = 0
          THEN [raised |-> TRUE, error |-> "RuntimeError", backend |-> 0]
          ELSE [raised |-> FALSE, error |-> "",
                backend |-> ok[_select_best(results, metrics, prefer)]]

\* ------------------------------------------------------------------------
\* Specification of the combiner: up to MaxBackends extractors, each named
\* pdfplumber or pdfminer, each raising or returning one of a few
\* extractions: scanned-looking ones whose scores are within and beyond 10%
\* of one another, a clean one, and an empty one.

MaxBackends == 3

Sizes(text_length, num_words, num_tables, artifact_count) ==
    [text_length |-> text_length, num_words |-> num_words,
     num_tables |-> num_tables, artifact_count |-> artifact_count]

\* The extractions a backend may return
Extractions ==
    { Sizes(10000, 1000, 0, 50),    \* OCR quality 0.5, overall 0.65
      Sizes(10000, 800, 0, 50),     \* OCR quality 0.5, overall 0.60
      Sizes(10000, 200, 0, 50),     \* OCR quality 0.5, overall 0.45
      Sizes(10000, 1000, 10, 0),    \* OCR quality 1.0, overall 1.00
      Sizes(0, 0, 0, 0) }           \* no text: OCR quality 0.0, overall 0.00

ExtractorNames == {"pdfplumber", "pdfminer"}

\* An extractor with what its extract does on the file
Backends ==
    { [extractor_name |-> n, raises |-> TRUE] @@ Sizes(0, 0, 0, 0) : n \in ExtractorNames }
    \cup { [extractor_name |-> n, raises |-> FALSE] @@ e :
             n \in ExtractorNames, e \in Extractions }

InitCombine ==
    /\ \E n \in 0..MaxBackends : backends \in [1..n -> Backends]
    /\ prefer_pdfminer_if_scanned \in BOOLEAN
    /\ extraction = Unset
    /\ AmountIdle
    /\ ScorerIdle
    /\ RowIdle
    /\ PipelineIdle
    /\ ValidatorIdle
    /\ SectionIdle
    /\ AnalyzerIdle
    /\ EndpointIdle

ExtractWithBestMethod ==
    /\ extraction = Unset
    /\ extraction' = [call |-> "extract_with_best_method"]
                     @@ extract_with_best_method(backends, prefer_pdfminer_if_scanned)
    /\ UNCHANGED <<backends, prefer_pdfminer_if_scanned, AmountVars, ScorerVars, EndpointVars, RowVars,
                   PipelineVars, ValidatorVars, SectionVars, AnalyzerVars>>

\* _select_best called on the results of extractors that all succeeded
SelectBest ==
    /\ extraction = Unset
    /\ Len(backends) > 0
    /\ \A i \in 1..Len(backends) : ~backends[i].raises
    /\ extraction' = [call |-> "_select_best", raised |-> FALSE, error |-> "",
                      backend |-> _select_best(backends,
                                               [i \in 1..Len(backends) |->
                                                   _calculate_metrics(backends[i])],
                                               prefer_pdfminer_if_scanned)]
    /\ UNCHANGED <<backends, prefer_pdfminer_if_scanned, AmountVars, ScorerVars, EndpointVars, RowVars,
                   PipelineVars, ValidatorVars, SectionVars, AnalyzerVars>>

NextCombine ==
    \/ ExtractWithBestMethod
    \/ SelectBest

SpecCombine == InitCombine /\ [][NextCombine]_vars

CombinerCalled(call) == extraction # Unset /\ extraction.call = call

MetricsOf(results) == [i \in 1..Len(results) |-> _calculate_metrics(results[i])]

\* The positions of the candidates with the highest overall score
Highest(metrics) ==
    {i \in 1..Len(metrics) :
        \A j \in 1..Len(metrics) : metrics[j].overall_score <= metrics[i].overall_score}

\* The pdfminer candidates that the scanned-document policy prefers: OCR
\* quality below 0.6 as has a highest-scoring candidate, and an overall
\* score within 10% of the highest
Preferred(metrics) ==
    {i \in 1..Len(metrics) :
        /\ metrics[i].extractor_name = "pdfminer"
        /\ metrics[i].ocr_quality_score < Pct(60)
        /\ \E b \in Highest(metrics) :
              /\ metrics[b].ocr_quality_score < Pct(60)
              /\ 10 * metrics[i].overall_score > 9 * metrics[b].overall_score}

\* C15 as stated: _select_best returns the candidate with the highest
\* overall score, except that with prefer_pdfminer_if_scanned, when the
\* pdfminer candidate and the best both have OCR quality below 0.6, the
\* pdfminer candidate is returned if its score is within 10% of the best's.
C15_SelectionRule ==
    CombinerCalled("_select_best") =>
      LET metrics == MetricsOf(backends)
      IN  IF prefer_pdfminer_if_scanned /\ Preferred(metrics) # {}
          THEN extraction.backend \in Preferred(metrics)
          ELSE extraction.backend \in Highest(metrics)

\* The orders in which n results can be listed
ListOrders(n) ==
    {f \in [1..n -> 1..n] : \A i, j \in 1..n : f[i] = f[j] => i = j}

\* C16 as stated: _select_best returns the same backend's result for every
\* permutation of the results list.
C16_OrderIndependent ==
    CombinerCalled("_select_best") =>
      \A order \in ListOrders(Len(backends)) :
         LET listed == [k \in 1..Len(backends) |-> backends[order[k]]]
             chosen == _select_best(listed, MetricsOf(listed), prefer_pdfminer_if_scanned)
         IN  listed[chosen] = backends[extraction.backend]

\* C17: extract_with_best_method raises if and only if every backend raises
\* or no backend is given; otherwise the result returned is one produced by
\* a backend that did not raise.
C17_RaisesIffAllFail ==
    CombinerCalled("extract_with_best_method") =>
      /\ extraction.raised <=> \A i \in 1..Len(backends) : backends[i].raises
      /\ ~extraction.raised =>
            /\ extraction.backend \in 1..Len(backends)
            /\ ~backends[extraction.backend].raises

\* The first backend raised and the result of a later one is returned
C17_Witness ==
    /\ CombinerCalled("extract_with_best_method")
    /\ Len(backends) > 1
    /\ backends[1].raises
    /\ ~extraction.raised
    /\ extraction.backend > 1

\* ------------------------------------------------------------------------
\* The two extraction entry points and the sections they extract. A section
\* extractor that raises is an input: raises is the set of sections whose
\* extractor throws an exception on the document.

Sections == {"page1", "part_viii", "part_ix"}

\* One section of extract_all_fields: its extractor within try/except, the
\* section with every field None when it raised
SectionOrEmpty(extracted, s, raises) ==
    IF s \in raises THEN [k \in DOMAIN extracted[s] |-> None] ELSE extracted[s]

\* errors.append(...) of a section whose extractor raised
SectionErrors(s, raises, message) == IF s \in raises THEN <<message>> ELSE <<>>

\* extract_all_fields: each section in its own try/except; the result with
\* the fields of the three sections and the errors recorded
extract_all_fields(full_text, raises) ==
    With(BaseExtraction(full_text), LAMBDA extracted :
      [raised |-> FALSE,
       data |-> [page1 |-> SectionOrEmpty(extracted, "page1", raises),
                 part_viii |-> SectionOrEmpty(extracted, "part_viii", raises),
                 part_ix |-> SectionOrEmpty(extracted, "part_ix", raises),
                 errors |-> SectionErrors("page1", raises, "Page 1 extraction error")
                            \o SectionErrors("part_viii", raises,
                                              "Part VIII extraction error")
                            \o SectionErrors("part_ix", raises,
                                              "Part IX extraction error")]])

\* extract_all_fields_v2_hybrid: the three section extractors are called
\* outside any try/except, so an exception of one of them leaves the function.
\* Otherwise the steps follow one another, each on the fields the step before
\* it left (v1, fixed, enhanced).
extract_all_fields_v2_hybrid(form_990_text, avg_ocr_quality, raises) ==
    IF raises # {}
    THEN [raised |-> TRUE, data |-> Unset]
    ELSE With(BaseExtraction(form_990_text), LAMBDA v1 :
           With(apply_precise_fixes(v1, form_990_text), LAMBDA fixed :
             With(ApplyEnhancements(fixed, form_990_text), LAMBDA enhanced :
               [raised |-> FALSE, data |-> BuildResult(enhanced, avg_ocr_quality)])))

\* extract_form_990_v2 around the pipeline: the except branch answers an
\* exception of the pipeline with a failure that carries no data
HandleUploadV2(outcome, fail_fast, confidence_threshold) ==
    IF outcome.raised
    THEN [success |-> FALSE, data |-> Unset, confidence |-> 0]
    ELSE extract_form_990_v2(outcome.data, fail_fast, confidence_threshold)

\* ------------------------------------------------------------------------
\* Specification of the entry points: a document of the pipeline at full OCR
\* quality, any set of its section extractors raising, handed to
\* extract_all_fields or to extract_all_fields_v2_hybrid, whose outcome the V2
\* endpoint then answers.

SectionDocuments ==
    [ein : EinLines, gross : {<<>>, GrossReceiptsLine(Amt50000)},
     page1 : {NoRow, Row12(<<Amt50000>>, <<>>)},
     part8 : {NoRow, Row12(<<Amt50000>>, <<>>), Row12(<<Year2019>>, Amt50000)},
     part9 : Part9Lines,
     ocr : {Pct(100)}]

InitSections ==
    /\ section_input \in [document : SectionDocuments, raises : SUBSET Sections]
    /\ section_result = Unset
    /\ AmountIdle
    /\ ScorerIdle
    /\ RowIdle
    /\ PipelineIdle
    /\ ValidatorIdle
    /\ CombinerIdle
    /\ AnalyzerIdle
    /\ EndpointIdle

ExtractAllFields ==
    /\ section_result = Unset
    /\ section_result' =
          [call |-> "extract_all_fields",
           outcome |-> extract_all_fields(FormText(section_input.document),
                                          section_input.raises)]
    /\ UNCHANGED <<section_input, AmountVars, ScorerVars, EndpointVars, RowVars, PipelineVars,
                   ValidatorVars, CombinerVars, AnalyzerVars>>

ExtractAllFieldsV2Hybrid ==
    /\ section_result = Unset
    /\ section_result' =
          [call |-> "extract_all_fields_v2_hybrid",
           outcome |-> extract_all_fields_v2_hybrid(FormText(section_input.document),
                                                    section_input.document.ocr,
                                                    section_input.raises)]
    /\ UNCHANGED <<section_input, AmountVars, ScorerVars, EndpointVars, RowVars, PipelineVars,
                   ValidatorVars, CombinerVars, AnalyzerVars>>

\* The endpoint once the pipeline has returned or raised
ExtractForm990V2 ==
    /\ section_result # Unset
    /\ section_result.call = "extract_all_fields_v2_hybrid"
    /\ \E fail_fast \in BOOLEAN, confidence_threshold \in Thresholds :
         section_result' =
           [call |-> "extract_form_990_v2",
            outcome |-> section_result.outcome,
            response |-> HandleUploadV2(section_result.outcome, fail_fast,
                                        confidence_threshold)]
    /\ UNCHANGED <<section_input, AmountVars, ScorerVars, EndpointVars, RowVars, PipelineVars,
                   ValidatorVars, CombinerVars, AnalyzerVars>>

NextSections ==
    \/ ExtractAllFields
    \/ ExtractAllFieldsV2Hybrid
    \/ ExtractForm990V2

SpecSections == InitSections /\ [][NextSections]_vars

\* The message recorded for a section whose extraction raised
SectionError(s) ==
    IF s = "page1" THEN "Page 1 extraction error"
    ELSE IF s = "part_viii" THEN "Part VIII extraction error"
    ELSE "Part IX extraction error"

\* The value of a field of a result: the V2 result wraps it with a confidence
ValueIn(call, data, s, k) ==
    IF call = "extract_all_fields" THEN data[s][k] ELSE data[s][k].value

\* What the entry point returns for the document when no extractor raises
Undisturbed(call) ==
    IF call = "extract_all_fields"
    THEN extract_all_fields(FormText(section_input.document), {}).data
    ELSE extract_all_fields_v2_hybrid(FormText(section_input.document),
                                      section_input.document.ocr, {}).data

\* C18: when the extraction of one section raises, extract_all_fields and
\* extract_all_fields_v2_hybrid still return a result: it carries the values
\* extracted for the other sections, every field of the failed section is
\* None, and an error string for the failed section is recorded in it.
C18_SectionFailureIsolated ==
    \A failed \in Sections :
        /\ section_result # Unset
        /\ section_result.call \in {"extract_all_fields", "extract_all_fields_v2_hybrid"}
        /\ section_input.raises = {failed}
        => LET call == section_result.call
               outcome == section_result.outcome
           IN  /\ ~outcome.raised
               /\ \A k \in DOMAIN outcome.data[failed] :
                      ValueIn(call, outcome.data, failed, k) = None
               /\ \A s \in Sections \ {failed} : \A k \in DOMAIN outcome.data[s] :
                      ValueIn(call, outcome.data, s, k)
                          = ValueIn(call, Undisturbed(call), s, k)
               /\ \E i \in 1..Len(outcome.data.errors) :
                      outcome.data.errors[i] = SectionError(failed)

\* ------------------------------------------------------------------------
\* Document analyzer (services/document_analyzer.py). The texts keep the case
\* of the patterns, so re.IGNORECASE is not modelled.

\* DocumentAnalyzer.FORM_990_PATTERNS
FORM_990_PATTERNS ==
    << <<Lit("Form"), Plus(ClsSpace), Lit("9"), Lit("9"), Lit("0"), WB>>,
       <<Lit("OMB"), Plus(ClsSpace), Lit("No"), Lit("."), Star(ClsSpace),
         Lit("1545-0047")>>,
       <<Lit("Return of Organization Exempt")>>,
       <<Lit("Part"), Plus(ClsSpace), Lit("I"), Plus(ClsSpace), Lit("Summary")>> >>

\* DocumentAnalyzer.FORM_8868_PATTERNS
FORM_8868_PATTERNS ==
    << <<Lit("Form"), Plus(ClsSpace), Lit("8"), Lit("8"), Lit("6"), Lit("8"), WB>>,
       <<Lit("Application for"), Star(ClsNotNL), Lit("Extension of Time")>>,
       <<Lit("Automatic"), Lit(" "), Lit("Extension of Time")>> >>

\* DocumentAnalyzer.SECTION_PATTERNS, in the order of the dict
SECTION_PATTERNS ==
    << [name |-> "Part I",
        pattern |-> <<Lit("Part"), Plus(ClsSpace), Lit("I"), Plus(ClsSpace),
                      Lit("Summary")>>],
       [name |-> "Part VIII",
        pattern |-> <<Lit("Part"), Plus(ClsSpace), Lit("VIII"), Plus(ClsSpace),
                      Lit("Statement of Revenue")>>],
       [name |-> "Part IX",
        pattern |-> <<Lit("Part"), Plus(ClsSpace), Lit("IX"), Plus(ClsSpace),
                      Lit("Statement of Functional")>>],
       [name |-> "Part X",
        pattern |-> <<Lit("Part"), Plus(ClsSpace), Lit("X"), Plus(ClsSpace),
                      Lit("Balance Sheet")>>] >>

\* Employer identification number|EIN\s*[:.]
EinFieldRe ==
    <<Alt(<< <<Lit("Employer identification number")>>,
             <<Lit("EIN"), Star(ClsSpace), One(Cls({":", "."}))>> >>)>>

\* DocumentAnalyzer._is_form_8868
_is_form_8868(text) ==
    IF Len(text) = 0 THEN FALSE
    ELSE \E i \in 1..Len(FORM_8868_PATTERNS) : Search(FORM_8868_PATTERNS[i], text).ok

\* The decision of _is_form_990 on the indicators found
Form990Evidence(matches, has_form_990, has_part_i, has_omb, has_ein_field) ==
    IF has_form_990 /\ (has_omb \/ has_part_i) THEN TRUE
    ELSE IF has_form_990 /\ has_ein_field THEN TRUE
    ELSE matches >= 2

\* The indicators _is_form_990 looks for and what it makes of them
Form990Indicators(text) ==
    Form990Evidence(
        Cardinality({i \in 1..Len(FORM_990_PATTERNS) :
                        Search(FORM_990_PATTERNS[i], text).ok}),
        Search(FORM_990_PATTERNS[1], text).ok,
        Search(FORM_990_PATTERNS[4], text).ok,
        Search(FORM_990_PATTERNS[2], text).ok,
        Search(EinFieldRe, text).ok)

\* An _is_form_990 that does not ask whether the page is the extension form.
Mut_is_form_990(text) ==
    IF Len(text) = 0 THEN FALSE
    ELSE Form990Indicators(text)

\* DocumentAnalyzer._is_form_990
_is_form_990(text) ==
    IF Len(text) = 0 THEN FALSE
    ELSE IF _is_form_8868(text) THEN FALSE
    ELSE Form990Indicators(text)

\* page.get('page_number', 1) and page.get('text', '')
PageNumberOf(page) == IF "page_number" \in DOMAIN page THEN page.page_number ELSE 1

TextOf(page) == IF "text" \in DOMAIN page THEN page.text ELSE <<>>

\* A scan that goes on to the end and returns the last page found.
RECURSIVE Mut_DetectFrom(_, _, _)
Mut_DetectFrom(page_list, i, found) ==
    IF i > Len(page_list) THEN found
    ELSE IF _is_form_8868(TextOf(page_list[i])) THEN Mut_DetectFrom(page_list, i + 1, found)
    ELSE IF _is_form_990(TextOf(page_list[i]))
         THEN Mut_DetectFrom(page_list, i + 1, PageNumberOf(page_list[i]))
         ELSE Mut_DetectFrom(page_list, i + 1, found)

Mut_detect_form_990_start(page_list) == Mut_DetectFrom(page_list, 1, 1)

\* The loop of detect_form_990_start from page i on
RECURSIVE DetectFrom(_, _)
DetectFrom(page_list, i) ==
    IF i > Len(page_list) THEN 1
    ELSE IF _is_form_8868(TextOf(page_list[i])) THEN DetectFrom(page_list, i + 1)
    ELSE IF _is_form_990(TextOf(page_list[i])) THEN PageNumberOf(page_list[i])
    ELSE DetectFrom(page_list, i + 1)

\* DocumentAnalyzer.detect_form_990_start
detect_form_990_start(page_list) == DetectFrom(page_list, 1)

\* DocumentAnalyzer._detect_sections
RECURSIVE DetectSectionsFrom(_, _)
DetectSectionsFrom(text, k) ==
    IF k > Len(SECTION_PATTERNS) THEN <<>>
    ELSE (IF Search(SECTION_PATTERNS[k].pattern, text).ok
          THEN <<SECTION_PATTERNS[k].name>> ELSE <<>>)
         \o DetectSectionsFrom(text, k + 1)

_detect_sections(text) == DetectSectionsFrom(text, 1)

\* DocumentAnalyzer.analyze_page: the PageMetadata, without the layout, the
\* OCR quality and the confidence derived from them
analyze_page(page) ==
    [page_number |-> PageNumberOf(page),
     is_form_990 |-> _is_form_990(TextOf(page)),
     is_form_8868 |-> _is_form_8868(TextOf(page)),
     sections_detected |-> _detect_sections(TextOf(page))]

\* DocumentAnalyzer.get_form_990_pages
RECURSIVE get_form_990_pages(_)
get_form_990_pages(page_list) ==
    IF Len(page_list) = 0 THEN <<>>
    ELSE (IF _is_form_990(TextOf(Head(page_list)))
          THEN <<PageNumberOf(Head(page_list))>> ELSE <<>>)
         \o get_form_990_pages(Tail(page_list))

\* ------------------------------------------------------------------------
\* Specification of the analyzer: a document of up to MaxPages pages, each
\* numbered by its position as the extractors number them, each with one of
\* the page texts below; one call of detect_form_990_start, analyze_page or
\* get_form_990_pages on it.

MaxPages == 2

Form990Line == <<"Form", " ", "9", "9", "0", "\n">>

Form990TLine == <<"Form", " ", "9", "9", "0", "T", "\n">>

OmbLine == <<"OMB", " ", "No", ".", " ", "1545-0047", "\n">>

ReturnLine == <<"Return of Organization Exempt", "\n">>

PartILine == <<"Part", " ", "I", " ", "Summary", "\n">>

EinFieldLine == <<"Employer identification number", "\n">>

EinColonLine == <<"EIN", ":", " ", "3", "9", "-", "0", "8", "0", "6", "2", "5", "1", "\n">>

Form8868Line == <<"Form", " ", "8", "8", "6", "8", "\n">>

ApplicationLine ==
    <<"Application for", " ", "Automatic", " ", "Extension of Time", "\n">>

BrokenApplicationLines == <<"Application for", "\n", "Extension of Time", "\n">>

CoverLine == <<"Public Disclosure Copy", "\n">>

PageTexts ==
    { <<>>,
      CoverLine,
      Form990Line,
      Form990Line \o OmbLine,
      Form990Line \o PartILine,
      Form990Line \o EinFieldLine,
      Form990TLine \o EinColonLine,
      ReturnLine \o OmbLine,
      Form8868Line \o ApplicationLine,
      Form8868Line \o Form990Line \o OmbLine,
      ApplicationLine \o ReturnLine \o PartILine,
      BrokenApplicationLines \o Form990Line \o EinColonLine }

Numbered(texts) == [i \in 1..Len(texts) |-> [page_number |-> i, text |-> texts[i]]]

InitAnalyze ==
    /\ \E n \in 0..MaxPages : \E texts \in [1..n -> PageTexts] : pages = Numbered(texts)
    /\ analysis = Unset
    /\ AmountIdle
    /\ ScorerIdle
    /\ RowIdle
    /\ PipelineIdle
    /\ ValidatorIdle
    /\ CombinerIdle
    /\ SectionIdle
    /\ EndpointIdle

DetectForm990Start ==
    /\ analysis = Unset
    /\ analysis' = [call |-> "detect_form_990_start",
                    returned |-> detect_form_990_start(pages)]
    /\ UNCHANGED <<pages, AmountVars, ScorerVars, EndpointVars, RowVars, PipelineVars, ValidatorVars,
                   CombinerVars, SectionVars>>

AnalyzePage ==
    /\ analysis = Unset
    /\ \E i \in 1..Len(pages) :
         analysis' = [call |-> "analyze_page", page |-> i,
                      returned |-> analyze_page(pages[i])]
    /\ UNCHANGED <<pages, AmountVars, ScorerVars, EndpointVars, RowVars, PipelineVars, ValidatorVars,
                   CombinerVars, SectionVars>>

GetForm990Pages ==
    /\ analysis = Unset
    /\ analysis' = [call |-> "get_form_990_pages",
                    returned |-> get_form_990_pages(pages)]
    /\ UNCHANGED <<pages, AmountVars, ScorerVars, EndpointVars, RowVars, PipelineVars, ValidatorVars,
                   CombinerVars, SectionVars>>

NextAnalyze ==
    \/ DetectForm990Start
    \/ AnalyzePage
    \/ GetForm990Pages

SpecAnalyze == InitAnalyze /\ [][NextAnalyze]_vars

AnalyzerCalled(call) == analysis # Unset /\ analysis.call = call

\* The positions of the pages that are not recognised as Form 8868 and are
\* recognised as Form 990
Qualifying ==
    {i \in 1..Len(pages) : ~_is_form_8868(pages[i].text) /\ _is_form_990(pages[i].text)}

FirstOf(S) == CHOOSE i \in S : \A j \in S : i <= j

\* C19: detect_form_990_start returns the page_number of the first page, in
\* the order of the list, that is not recognised as Form 8868 and is
\* recognised as Form 990, and 1 when no page qualifies.
C19_FirstForm990Page ==
    AnalyzerCalled("detect_form_990_start") =>
        analysis.returned =
            IF Qualifying = {} THEN 1 ELSE pages[FirstOf(Qualifying)].page_number

\* A Form 8868 page that carries Form 990 indicators comes first and the
\* number of the page after it is returned
C19_Witness ==
    /\ AnalyzerCalled("detect_form_990_start")
    /\ Len(pages) >= 2
    /\ pages[1].text = Form8868Line \o Form990Line \o OmbLine
    /\ 2 \in Qualifying
    /\ analysis.returned = 2

\* C20: a page that matches a Form 8868 pattern is never classified as Form
\* 990, whatever Form 990 indicators it matches: analyze_page never returns
\* is_form_990 and is_form_8868 both true, and get_form_990_pages never lists
\* the number of a page that matches a Form 8868 pattern.
C20_ExtensionFormExcluded ==
    /\ AnalyzerCalled("analyze_page") =>
          ~(analysis.returned.is_form_990 /\ analysis.returned.is_form_8868)
    /\ AnalyzerCalled("get_form_990_pages") =>
          \A i \in 1..Len(pages) :
              (\E k \in 1..Len(FORM_8868_PATTERNS) :
                   Search(FORM_8868_PATTERNS[k], pages[i].text).ok)
              => \A j \in 1..Len(analysis.returned) :
                     analysis.returned[j] # pages[i].page_number

\* A page with the Form 8868 heading that also carries "Form 990" and the OMB
\* number is analysed as the extension form and not as Form 990
C20_Witness ==
    /\ AnalyzerCalled("analyze_page")
    /\ pages[analysis.page].text = Form8868Line \o Form990Line \o OmbLine
    /\ analysis.returned.is_form_8868
    /\ ~analysis.returned.is_form_990

\* ------------------------------------------------------------------------
\* The line lookups of FieldExtractor on a row with columns: the row line
\* with some valid amounts, and the lines that follow it.

\* FieldExtractor._find_valid_amount
_find_valid_amount(t, pattern) ==
    With(Search(pattern \o <<Star(ClsNotNL)>>, t),
         LAMBDA m : IF m.ok THEN _find_amounts_with_lookahead(t, m, "last") ELSE None)

\* The match of row 25 in _extract_part_ix_fields: the row code with the
\* label, or else the label alone
Row25Match(section) ==
    With(Search(<<WB>> \o Str(<<"2", "5">>)
                \o <<WB, Plus(ClsSpace), Lit("Total functional expenses"), Star(ClsNotNL)>>,
                section),
         LAMBDA m :
           IF m.ok THEN m
           ELSE Search(<<Lit("Total functional expenses"), Star(ClsNotNL)>>, section))

\* Row 25 with the columns counted from the end of the line.
Mut_total_functional_expenses(section) ==
    With(Row25Match(section), LAMBDA m :
      IF ~m.ok THEN <<None, None, None, None>>
      ELSE With(_find_amounts_in_text(Group0(section, m)), LAMBDA valid_amounts :
             [c \in 1..4 |->
                IF Len(valid_amounts) > 4 THEN valid_amounts[Len(valid_amounts) - 4 + c]
                ELSE IF Len(valid_amounts) >= c THEN valid_amounts[c] ELSE None]))

\* total_functional_expenses_a, _b, _c and _d of _extract_part_ix_fields
total_functional_expenses(section) ==
    With(Row25Match(section), LAMBDA m :
      IF ~m.ok THEN <<None, None, None, None>>
      ELSE With(_find_amounts_in_text(Group0(section, m)), LAMBDA valid_amounts :
             [c \in 1..4 |-> IF Len(valid_amounts) >= c THEN valid_amounts[c] ELSE None]))

\* ------------------------------------------------------------------------
\* Specification of the line lookups: a row line bearing the label, an
\* optional token that is no valid amount and up to MaxColumns valid amounts,
\* followed by up to MaxFollowing lines, each blank, or holding a valid
\* amount, a token that is no valid amount, or the label again with an amount.
\* The amounts differ from line to line and from column to column.

MaxFollowing == 4

MaxColumns == 5

\* The decimal digit of a small number
DigitOf(n) == <<"1", "2", "3", "4", "5", "6", "7", "8", "9">>[n]

\* The j-th valid amount of line i
AmountAt(i, j) == <<DigitOf(i), ",", "5", "0", DigitOf(j)>>

\* Found by AMOUNT_RE, too short to be an amount
NoAmountToken == <<"0", ",", "2", "5">>

Lookups ==
    { [fn |-> "_find_first_valid_amount", code |-> <<>>, label |-> "Total revenue"],
      [fn |-> "_find_valid_amount", code |-> <<>>, label |-> "Total revenue"],
      [fn |-> "extract_p8", code |-> <<"5">>, label |-> "Royalties"],
      [fn |-> "extract_p9", code |-> <<"2", "6">>, label |-> "Joint costs"],
      [fn |-> "_extract_current_year_value", code |-> <<"8">>,
       label |-> "Contributions and grants"],
      [fn |-> "total_functional_expenses", code |-> <<"2", "5">>,
       label |-> "Total functional expenses"] }

WithLookahead == {"_find_first_valid_amount", "_find_valid_amount"}

ColumnA == {"extract_p8", "extract_p9"}

\* The largest number of valid amounts on the row line, for each lookup
ColumnsOf(fn) ==
    IF fn \in WithLookahead THEN 2 ELSE IF fn \in ColumnA THEN 3 ELSE MaxColumns

LineOf(labelled, token, n) == [labelled |-> labelled, token |-> token, n |-> n]

FollowingLines ==
    {LineOf(FALSE, FALSE, 0), LineOf(FALSE, FALSE, 1), LineOf(FALSE, TRUE, 0),
     LineOf(TRUE, FALSE, 1)}

RECURSIVE AmountsFrom(_, _, _)
AmountsFrom(i, j, n) ==
    IF j > n THEN <<>> ELSE <<" ">> \o AmountAt(i, j) \o AmountsFrom(i, j + 1, n)

\* The text of line i of the input
LineText(lookup, line, i) ==
    (IF ~line.labelled THEN <<>>
     ELSE lookup.code \o (IF lookup.code = <<>> THEN <<>> ELSE <<" ">>) \o <<lookup.label>>)
    \o (IF line.token THEN <<" ">> \o NoAmountToken ELSE <<>>)
    \o AmountsFrom(i, 1, line.n)

RECURSIVE FollowingText(_, _, _)
FollowingText(lookup, following, k) ==
    IF k > Len(following) THEN <<>>
    ELSE <<"\n">> \o LineText(lookup, following[k], k + 1)
         \o FollowingText(lookup, following, k + 1)

LookupText(in) ==
    LineText(in.lookup, in.head, 1) \o FollowingText(in.lookup, in.following, 1)

InitLookup ==
    /\ \E lookup \in Lookups :
         row_input \in
           [lookup : {lookup},
            head : {LineOf(TRUE, token, n) :
                      token \in BOOLEAN,
                      n \in 0..ColumnsOf(lookup.fn)},
            following : UNION {[1..len -> FollowingLines] :
                                 len \in 0..(IF lookup.fn \in WithLookahead
                                             THEN MaxFollowing ELSE 1)}]
    /\ row_value = NotYet
    /\ AmountIdle
    /\ ScorerIdle
    /\ PipelineIdle
    /\ ServiceIdle

LookupFrame == <<row_input, AmountVars, ScorerVars, PipelineVars, ServiceVars>>

FindFirstValidAmount ==
    /\ row_value = NotYet
    /\ row_input.lookup.fn = "_find_first_valid_amount"
    /\ row_value' = _find_first_valid_amount(LookupText(row_input),
                                             Str(<<row_input.lookup.label>>))
    /\ UNCHANGED LookupFrame

FindValidAmount ==
    /\ row_value = NotYet
    /\ row_input.lookup.fn = "_find_valid_amount"
    /\ row_value' = _find_valid_amount(LookupText(row_input),
                                       Str(<<row_input.lookup.label>>))
    /\ UNCHANGED LookupFrame

ExtractColumnA ==
    /\ row_value = NotYet
    /\ row_input.lookup.fn \in ColumnA
    /\ row_value' =
          IF row_input.lookup.fn = "extract_p8"
          THEN extract_p8(_normalize_spaces(SectionOf(PartVIIISectionRe,
                                                      LookupText(row_input))),
                          row_input.lookup.code, Str(<<row_input.lookup.label>>))
          ELSE extract_p9(_normalize_spaces(SectionOf(PartIXSectionRe,
                                                      LookupText(row_input))),
                          row_input.lookup.code, Str(<<row_input.lookup.label>>))
    /\ UNCHANGED LookupFrame

ExtractCurrentYearValue ==
    /\ row_value = NotYet
    /\ row_input.lookup.fn = "_extract_current_year_value"
    /\ row_value' = _extract_current_year_value(LookupText(row_input),
                        row_input.lookup.code, Str(<<row_input.lookup.label>>))
    /\ UNCHANGED LookupFrame

ExtractRow25 ==
    /\ row_value = NotYet
    /\ row_input.lookup.fn = "total_functional_expenses"
    /\ row_value' = total_functional_expenses(
                        _normalize_spaces(SectionOf(PartIXSectionRe, LookupText(row_input))))
    /\ UNCHANGED LookupFrame

NextLookup ==
    \/ FindFirstValidAmount
    \/ FindValidAmount
    \/ ExtractColumnA
    \/ ExtractCurrentYearValue
    \/ ExtractRow25

SpecLookup == InitLookup /\ [][NextLookup]_vars

\* The valid amounts of line i of the input, in the order of the line
ValidOn(line, i) == [j \in 1..line.n |-> AmountAt(i, j)]

Elements(s) == {s[j] : j \in 1..Len(s)}

LookedUp(fns) == row_value # NotYet /\ row_input.lookup.fn \in fns

\* The lines among the first LOOKAHEAD_LINES after the row line that hold a
\* valid amount
AmountsAhead ==
    {k \in 1..Min(LOOKAHEAD_LINES, Len(row_input.following)) : row_input.following[k].n > 0}

\* The value comes from the row line when it has a valid amount, otherwise
\* from the first of the next LOOKAHEAD_LINES lines that has one, otherwise
\* it is None
FromLineOrLookahead ==
    IF row_input.head.n > 0 THEN row_value \in Elements(ValidOn(row_input.head, 1))
    ELSE IF AmountsAhead # {}
    THEN \E k \in AmountsAhead :
            /\ \A other \in AmountsAhead : k <= other
            /\ row_value \in Elements(ValidOn(row_input.following[k], k + 1))
    ELSE row_value = None

\* The following lines, among those given, that bear the label and whose
\* amount is the value returned
LabelledSources(ks) ==
    {k \in ks : /\ row_input.following[k].labelled
                /\ row_value \in Elements(ValidOn(row_input.following[k], k + 1))}

\* C26 as stated: _find_first_valid_amount and _find_valid_amount return a
\* valid amount of the first matching line when it has one, otherwise one of
\* the first of the next 3 lines that has one, otherwise None; the amount
\* never comes from a line more than 3 lines after the matched line, nor from
\* a later line matching the pattern.
C26_AsStated ==
    LookedUp(WithLookahead) =>
       /\ FromLineOrLookahead
       /\ LabelledSources(1..Len(row_input.following)) = {}

\* C26 amended: as stated, except that the amount comes from a later line
\* matching the pattern when that line is the first of the next 3 lines to
\* hold a valid amount, and from no later matching line beyond these.
C26_Amended ==
    LookedUp(WithLookahead) =>
       /\ FromLineOrLookahead
       /\ LabelledSources((LOOKAHEAD_LINES + 1)..Len(row_input.following)) = {}
       /\ \A k \in LabelledSources(1..Len(row_input.following)) :
             /\ row_input.head.n = 0
             /\ \A other \in AmountsAhead : k <= other

\* The row line and the two lines after it hold no valid amount, the third
\* and the fourth line after it do, and the amount of the third is returned
C26_Witness ==
    /\ LookedUp(WithLookahead)
    /\ row_input.head.n = 0
    /\ Len(row_input.following) = 4
    /\ AmountsAhead = {3}
    /\ row_input.following[4].labelled
    /\ row_value = AmountAt(4, 1)

\* C27: on a matched line holding several valid amounts, extract_p8 and
\* extract_p9 return the first valid amount of the line,
\* _extract_current_year_value returns the last, and row 25 of Part IX gives
\* the 1st, 2nd, 3rd and 4th valid amounts to columns A, B, C and D.
C27_ColumnOfTheLine ==
    (row_value # NotYet /\ row_input.head.n >= 2) =>
       With(ValidOn(row_input.head, 1), LAMBDA valid :
         /\ row_input.lookup.fn \in ColumnA => row_value = First(valid)
         /\ row_input.lookup.fn = "_extract_current_year_value" => row_value = Last(valid)
         /\ row_input.lookup.fn = "total_functional_expenses" =>
               row_value = [c \in 1..4 |-> IF c <= Len(valid) THEN valid[c] ELSE None])

\* Row 25 looked up on a line with five valid amounts after a token that is
\* no valid amount
C27_Witness ==
    /\ LookedUp({"total_functional_expenses"})
    /\ row_input.head.n = 5
    /\ row_input.head.token
    /\ row_value[4] = AmountAt(1, 4)

\* ------------------------------------------------------------------------
\* The row fixes of services/field_extractor_precise.py and the rows of the
\* base extraction they write over

\* section[start:start+150] of extract_row5_royalties_precise
ROYALTIES_WINDOW == 150

\* (\d{1,3}(?:,\d{3})+)
CommaAmountGroup ==
    <<Open(1), Rep(ClsDigit, 1, 3), RepGroup(<<Lit(","), Rep(ClsDigit, 3, 3)>>, 1, -1),
      Close(1)>>

\* r'\b5\b[^\d\n]*Royalties[^\n]*\D(\d{1,3}(?:,\d{3})+)'
RoyaltiesSameLineRe ==
    <<WB, Lit("5"), WB, Star(NotCls(Digit \cup {"\n"})), Lit("Royalties"),
      Star(ClsNotNL), One(ClsNotDigit)>> \o CommaAmountGroup

\* r'Royalties[^\n]*[\n\r]+\s*5\s*[\n\r]'
RoyaltiesMarkerLineRe ==
    <<Lit("Royalties"), Star(ClsNotNL), Plus(ClsNL), Star(ClsSpace), Lit("5"),
      Star(ClsSpace), One(ClsNL)>>

\* The second pattern of extract_row5_royalties_precise, once it has matched
\* at m
RoyaltiesOfMarkerLine(section, m) ==
    With(Slice(section, m.start - 1, m.start - 1 + ROYALTIES_WINDOW), LAMBDA window :
      With(Search(<<Lit("Royalties"), LazyStar(ClsNotNL)>> \o NumberGroup, window),
           LAMBDA value_match :
             IF /\ value_match.ok
                /\ Contains(SubSeq(window, 1, value_match.start - 1), <<"\n", "5", "\n">>)
                /\ ~Contains(Group0(window, value_match), <<"6">>)
                /\ ~Contains(SubSeq(window, 1, value_match.end - 1), <<"Gross rents">>)
             THEN rstrip(Group(window, value_match, 1), ".")
             ELSE <<>>))

\* extract_row5_royalties_precise without the empty string for a row that
\* is there.
Mut_extract_row5_royalties_precise(section) ==
    With(Search(RoyaltiesSameLineRe, section), LAMBDA m1 :
      IF /\ m1.ok
         /\ ~Contains(Group0(section, m1), <<"6">>)
         /\ ~Contains(Group0(section, m1), <<"Gross rents">>)
      THEN rstrip(Group(section, m1, 1), ".")
      ELSE None)

\* extract_row5_royalties_precise
extract_row5_royalties_precise(section) ==
    With(Search(RoyaltiesSameLineRe, section), LAMBDA m1 :
      IF /\ m1.ok
         /\ ~Contains(Group0(section, m1), <<"6">>)
         /\ ~Contains(Group0(section, m1), <<"Gross rents">>)
      THEN rstrip(Group(section, m1, 1), ".")
      ELSE With(Search(RoyaltiesMarkerLineRe, section), LAMBDA m2 :
             IF m2.ok THEN RoyaltiesOfMarkerLine(section, m2) ELSE None))

\* The symbols of the texts whose spelling has the letter e
WithLetterE ==
    {"e", "Professional fundraising", "services", "See Part IV", "line", "Investment",
     "management fees", "income", "Royalties", "Gross rents", "Payments to affiliates",
     "Depreciation", "All other contributions", "Add lines", "Total revenue"}

\* 'e' in s
HasLetterE(s) == \E i \in 1..Len(s) : s[i] \in WithLetterE

\* Professional fundraising services
FundraisingServicesRe == Str(<<"Professional fundraising", " ", "services">>)

\* extract_part9_professional_fundraising_precise
extract_part9_professional_fundraising_precise(section) ==
    With(Search(FundraisingServicesRe
                \o <<Star(ClsNotNL), Plus(ClsNL), Star(ClsSpace), Lit("e"), Star(ClsSpace),
                     One(ClsNL)>>, section),
         LAMBDA m :
      IF m.ok
      THEN With(Slice(section, m.start - 1, m.start - 1 + PRECISE_WINDOW), LAMBDA window :
             With(IF Contains(window, <<"\n", "f", "\n">>)
                  THEN SplitFirst(window, <<"\n", "f", "\n">>)
                  ELSE IF Contains(window, <<"Investment">>)
                       THEN SplitFirst(window, <<"Investment">>)
                       ELSE window,
                  LAMBDA before_next_row :
                    With(Search(NumberGroup, before_next_row), LAMBDA amount_match :
                      IF /\ amount_match.ok
                         /\ HasLetterE(SubSeq(before_next_row, 1, amount_match.start - 1))
                      THEN rstrip(Group(before_next_row, amount_match, 1), ".")
                      ELSE <<>>)))
      ELSE With(Search(<<WB, Lit("1"), Lit("1"), Star(ClsSpace), Lit("e"), WB,
                         Star(ClsNotNL), Lit("Professional fundraising"),
                         LazyStar(ClsNotNL)>> \o NumberGroup, section),
                LAMBDA fallback :
                  IF fallback.ok THEN rstrip(Group(section, fallback, 1), ".") ELSE None))

\* The first of the patterns that matches the section, or NoMatch
RECURSIVE FirstMatch(_, _, _)
FirstMatch(patterns, section, k) ==
    IF k > Len(patterns) THEN NoMatch
    ELSE With(Search(patterns[k], section), LAMBDA m :
           IF m.ok THEN m ELSE FirstMatch(patterns, section, k + 1))

AllOtherRe == <<Lit("All other contributions")>>

NoncashRe == <<Lit("Noncash contributions")>>

\* Add lines 1a and Add lines 2a
AddLinesRe(n) == Str(<<"Add lines", " ", n, "a">>)

\* [-\u2013], the en dash written as a symbol of its own
ClsDash == Cls({"-", "en dash"})

\* patterns_1f of extract_row1_contributions_precise
patterns_1f ==
    << AllOtherRe \o <<LazyStar(ClsNotNL), Lit("~"), Star(ClsSpace)>> \o NumberGroup
         \o <<Lit("."), Star(ClsSpace), Plus(ClsNL), Star(ClsSpace), Lit("1"), Lit("f")>>,
       AllOtherRe \o <<LazyStar(NotCls(Digit \cup {"\n"})), Plus(ClsNL),
                       LazyStar(ClsNotNL), Plus(ClsNL), Star(ClsSpace), Lit("1"), Lit("f"),
                       Plus(ClsSpace)>> \o NumberGroup,
       <<WB, Lit("1"), Lit("f"), WB, Star(ClsNotNL)>> \o AllOtherRe
         \o <<LazyStar(ClsNotNL)>> \o NumberGroup,
       <<WB, Lit("f"), WB, Plus(ClsSpace)>> \o AllOtherRe \o <<LazyStar(ClsNotNL)>>
         \o NumberGroup,
       AllOtherRe \o <<LazyStar(ClsNotNL),
                       Alt(<< <<WB, Lit("1"), Lit("f"), WB>>, <<WB, Lit("f"), WB>> >>),
                       LazyStar(ClsNotNL)>> \o NumberGroup >>

\* patterns_1g of extract_row1_contributions_precise
patterns_1g ==
    << <<Lit("$"), Star(ClsSpace)>> \o NumberGroup
         \o <<Lit("."), Star(ClsSpace), Plus(ClsNL), Star(ClsSpace), Lit("g"),
              Plus(ClsSpace)>> \o NoncashRe,
       <<WB, Lit("1"), Lit("g"), WB, Star(ClsNotNL)>> \o NoncashRe
         \o <<LazyStar(ClsNotNL)>> \o NumberGroup,
       <<WB, Lit("g"), WB, Plus(ClsSpace)>> \o NoncashRe \o <<LazyStar(ClsNotNL)>>
         \o NumberGroup,
       NoncashRe \o <<LazyStar(ClsNotNL), WB, Lit("1"), Lit("g"), WB, LazyStar(ClsNotNL)>>
         \o NumberGroup >>

\* Total[^\n]*Add lines 1a[-\u2013]1f
TotalLines1Re ==
    <<Lit("Total"), Star(ClsNotNL)>> \o AddLinesRe("1") \o <<One(ClsDash), Lit("1"), Lit("f")>>

\* patterns_1h of extract_row1_contributions_precise
patterns_1h ==
    << TotalLines1Re \o <<LazyStar(ClsNotNL)>> \o NumberGroup \o <<Lit(".")>>,
       <<WB, Lit("1"), Lit("h"), WB, Star(ClsNotNL), Lit("Total"), Star(ClsNotNL)>>
         \o AddLinesRe("1") \o <<LazyStar(ClsNotNL)>> \o NumberGroup,
       <<WB, Lit("h"), WB, Plus(ClsSpace)>> \o TotalLines1Re
         \o <<LazyStar(ClsNotNL), Open(1), Plus(ClsDigit), Lit(","), Rep(ClsDigit, 3, 3),
              Lit(","), Rep(ClsDigit, 3, 3), Close(1)>>,
       TotalLines1Re \o <<Star(ClsNotNL)>> \o CommaAmountGroup >>

\* The loop over patterns_1g: the first match whose value differs from the
\* value of row 1f, or None
RECURSIVE NoncashFrom(_, _, _)
NoncashFrom(section, all_other, k) ==
    IF k > Len(patterns_1g) THEN None
    ELSE With(Search(patterns_1g[k], section), LAMBDA m :
           IF m.ok /\ rstrip(Group(section, m, 1), ".") # all_other
           THEN rstrip(Group(section, m, 1), ".")
           ELSE NoncashFrom(section, all_other, k + 1))

\* extract_row1_contributions_precise: results, with None for a missing key
extract_row1_contributions_precise(section) ==
    With(FirstMatch(patterns_1f, section, 1), LAMBDA m1f :
      With(IF m1f.ok THEN rstrip(Group(section, m1f, 1), ".") ELSE None,
           LAMBDA all_other :
             [all_other_contributions |-> all_other,
              noncash_contributions |-> NoncashFrom(section, all_other, 1),
              contributions_total |->
                  With(FirstMatch(patterns_1h, section, 1), LAMBDA m1h :
                    IF m1h.ok THEN rstrip(Group(section, m1h, 1), ".") ELSE None)]))

\* Add lines 2a[-\u2013]2[a-z][^\n]+
Lines2Re ==
    AddLinesRe("2") \o <<One(ClsDash), Lit("2"),
                         One(Cls({"a", "b", "c", "d", "e", "f", "g", "h"})), Plus(ClsNotNL)>>

\* The patterns of extract_row2g_program_revenue_precise
patterns_2g ==
    << <<WB, Lit("2"), Lit("g"), WB, Star(ClsNotNL), Lit("Total"), Star(ClsNotNL)>>
         \o AddLinesRe("2") \o <<Plus(ClsNotNL)>>,
       <<WB, Lit("g"), WB, Plus(ClsSpace), Opt(<<One(ClsNL)>>), Star(ClsSpace),
         Lit("Total"), Star(ClsNotNL)>> \o Lines2Re,
       <<Lit("Total"), Star(ClsNotNL)>> \o Lines2Re >>

\* max(amounts, key=lambda x: int(x.replace(',', ''))): the first of the
\* largest
RECURSIVE LargestFrom(_, _, _)
LargestFrom(amounts, k, best) ==
    IF k > Len(amounts) THEN best
    ELSE LargestFrom(amounts, k + 1,
                     IF int(Remove(amounts[k], {","})) > int(Remove(best, {","}))
                     THEN amounts[k] ELSE best)

\* re.findall(r'(\d{1,3}(?:,\d{3})+)', line)
CommaAmountsOf(line) == FindAll(CommaAmountGroup, line)

RECURSIVE ProgramRevenueFrom(_, _)
ProgramRevenueFrom(section, k) ==
    IF k > Len(patterns_2g) THEN None
    ELSE With(Search(patterns_2g[k], section), LAMBDA m :
           With(IF m.ok THEN CommaAmountsOf(Group0(section, m)) ELSE <<>>, LAMBDA amounts :
             IF Len(amounts) > 0 THEN LargestFrom(amounts, 2, amounts[1])
             ELSE ProgramRevenueFrom(section, k + 1)))

\* extract_row2g_program_revenue_precise
extract_row2g_program_revenue_precise(section) == ProgramRevenueFrom(section, 1)

\* The rows of _extract_part_viii_fields and _extract_part_ix_fields that
\* apply_precise_fixes writes over, with one row of each part that it leaves
\* alone, next to the fields of BaseExtraction
BaseRows(t) ==
    With(BaseExtraction(t), LAMBDA base :
      With(_normalize_spaces(SectionOf(PartVIIISectionRe, t)), LAMBDA section8 :
        With(_normalize_spaces(SectionOf(PartIXSectionRe, t)), LAMBDA section9 :
          [page1 |-> base.page1,
           part_viii |->
             [all_other_contributions |->
                  extract_p8(section8, <<"1", "f">>, AllOtherRe),
              noncash_contributions |->
                  extract_p8(section8, <<"1", "g">>, NoncashRe),
              contributions_total |->
                  OrElse(_find_first_valid_amount(section8,
                             <<Lit("Total"), Star(ClsNotNL)>> \o AddLinesRe("1")),
                         extract_p8(section8, <<"1", "h">>,
                             <<Lit("Total"), Star(ClsNotNL)>> \o AddLinesRe("1"))),
              program_service_revenue_total |->
                  OrElse(_find_first_valid_amount(section8,
                             <<Lit("Total"), Star(ClsNotNL)>> \o AddLinesRe("2")),
                    OrElse(_find_first_valid_amount(section8,
                               <<Lit("Total"), Star(ClsNotNL),
                                 Lit("program service revenue")>>),
                           extract_p8(section8, <<"2", "g">>, <<Lit("Total")>>))),
              investment_income |->
                  extract_p8(section8, <<"3">>, Str(<<"Investment", " ", "income">>)),
              royalties |-> extract_p8(section8, <<"5">>, <<Lit("Royalties")>>),
              total_revenue |-> base.part_viii.total_revenue],
           part_ix |->
             [professional_fundraising_services |->
                  OrElse(extract_p9(section9, <<"1", "1", "e">>,
                                    <<Lit("Professional fundraising")>>),
                         _find_first_valid_amount(section9,
                             <<WB, Lit("e"), WB, Plus(ClsSpace),
                               Lit("Professional fundraising")>>)),
              affiliate_payments |-> base.part_ix.affiliate_payments,
              joint_costs |->
                  extract_p9(section9, <<"2", "6">>, <<Lit("Joint costs")>>)]])))

\* The row fixes with royalties written only by a non-empty value.
Mut_apply_row_fixes(f, full_text) ==
    With(SectionOf(PartVIIISectionRe, full_text), LAMBDA part8_section :
      With(extract_row1_contributions_precise(part8_section), LAMBDA row1_fixes :
        [page1 |-> f.page1,
         part_viii |->
           [f.part_viii EXCEPT
              !.all_other_contributions = OrElse(row1_fixes.all_other_contributions, @),
              !.noncash_contributions = OrElse(row1_fixes.noncash_contributions, @),
              !.contributions_total = OrElse(row1_fixes.contributions_total, @),
              !.program_service_revenue_total =
                  OrElse(extract_row2g_program_revenue_precise(part8_section), @),
              !.royalties = OrElse(extract_row5_royalties_precise(part8_section), @)],
         part_ix |->
           [f.part_ix EXCEPT
              !.professional_fundraising_services =
                  With(extract_part9_professional_fundraising_precise(
                           SectionOf(PartIXSectionRe, full_text)),
                       LAMBDA precise_11e :
                         IF precise_11e # None THEN precise_11e
                         ELSE f.part_ix.professional_fundraising_services)]]))

\* apply_precise_fixes on rows 1, 2g and 5 of Part VIII and row 11e of
\* Part IX; gross_receipts, row 12 and row 21 are written by
\* apply_precise_fixes above
apply_row_fixes(f, full_text) ==
    With(SectionOf(PartVIIISectionRe, full_text), LAMBDA part8_section :
      With(extract_row1_contributions_precise(part8_section), LAMBDA row1_fixes :
        [page1 |-> f.page1,
         part_viii |->
           [f.part_viii EXCEPT
              !.all_other_contributions = OrElse(row1_fixes.all_other_contributions, @),
              !.noncash_contributions = OrElse(row1_fixes.noncash_contributions, @),
              !.contributions_total = OrElse(row1_fixes.contributions_total, @),
              !.program_service_revenue_total =
                  OrElse(extract_row2g_program_revenue_precise(part8_section), @),
              !.royalties =
                  With(extract_row5_royalties_precise(part8_section),
                       LAMBDA precise_royalties :
                         IF precise_royalties # None THEN precise_royalties
                         ELSE f.part_viii.royalties)],
         part_ix |->
           [f.part_ix EXCEPT
              !.professional_fundraising_services =
                  With(extract_part9_professional_fundraising_precise(
                           SectionOf(PartIXSectionRe, full_text)),
                       LAMBDA precise_11e :
                         IF precise_11e # None THEN precise_11e
                         ELSE f.part_ix.professional_fundraising_services)]]))

\* ------------------------------------------------------------------------
\* Specification of the row fixes: a text of one row, or of the rows of two
\* fields, of Part VIII and Part IX, each in one of the layouts the extractors know (row code,
\* label and amount on one line; the label line followed by a line with the
\* row code alone), with or without an amount, taken through the base
\* extraction, apply_precise_fixes and step 5. The enhancements of step 4.5
\* are left out, and the result holds the fields that step 4.5 never writes.

RowOf(field, layout, amount, text) ==
    [field |-> field, layout |-> layout, amount |-> amount, text |-> text]

Amt404973 == <<"4", "0", "4", ",", "9", "7", "3">>

Amt16000 == <<"1", "6", ",", "0", "0", "0">>

Amt1234 == <<"1", ",", "2", "3", "4">>

Amt7500 == <<"7", ",", "5", "0", "0">>

Amt112815 == <<"1", "1", "2", ",", "8", "1", "5">>

Amt2500 == <<"2", ",", "5", "0", "0">>

Amt78097 == <<"7", "8", ",", "0", "9", "7">>

Amt36569 == <<"3", "6", ",", "5", "6", "9">>

Amt16924 == <<"1", "6", ",", "9", "2", "4">>

Amt43437 == <<"4", "3", ",", "4", "3", "7">>

Amt384948 == <<"3", "8", "4", ",", "9", "4", "8">>

Amt84415 == <<"8", "4", ",", "4", "1", "5">>

Amt9000 == <<"9", ",", "0", "0", "0">>

Amt12345 == <<"1", "2", ",", "3", "4", "5">>

RoyaltiesRows ==
    { RowOf("royalties", "one line", Amt404973,
            <<"5", " ", "Royalties", " ">> \o Amt404973),
      RowOf("royalties", "one line", Amt16000,
            <<"5", " ", "Royalties", " ">> \o Amt16000),
      RowOf("royalties", "one line", <<>>, <<"5", " ", "Royalties">>),
      RowOf("royalties", "marker line", <<>>, <<"Royalties", " ", "~", "\n", "5">>),
      RowOf("royalties", "marker line", Amt404973,
            <<"Royalties", " ", "~", " ">> \o Amt404973 \o <<"\n", "5">>) }

AffiliateRows ==
    { RowOf("affiliate_payments", "one line", Amt7500,
            <<"2", "1", " ", "Payments to affiliates", " ">> \o Amt7500),
      RowOf("affiliate_payments", "one line", <<>>,
            <<"2", "1", " ", "Payments to affiliates">>),
      RowOf("affiliate_payments", "marker line", <<>>,
            <<"Payments to affiliates", " ", "~", "\n", "2", "1">>),
      RowOf("affiliate_payments", "marker line", Amt7500,
            <<"Payments to affiliates", " ", "~", " ">> \o Amt7500 \o <<"\n", "2", "1">>) }

FundraisingRows ==
    { RowOf("professional_fundraising_services", "one line", Amt2500,
            <<"1", "1", "e", " ", "Professional fundraising", " ", "services", " ">>
            \o Amt2500),
      RowOf("professional_fundraising_services", "marker line", <<>>,
            <<"Professional fundraising", " ", "services", "\n", "e">>),
      RowOf("professional_fundraising_services", "marker line", <<>>,
            <<"Professional fundraising", " ", "services", ".", " ", "See Part IV", ",",
              " ", "line", " ", "1", "7", "\n", "e">>),
      RowOf("professional_fundraising_services", "marker line", Amt2500,
            <<"Professional fundraising", " ", "services", " ", "~", " ">> \o Amt2500
            \o <<"\n", "e">>) }

ContributionRows ==
    { RowOf("all_other_contributions", "one line", Amt36569,
            <<"1", "f", " ", "All other contributions", " ">> \o Amt36569),
      RowOf("all_other_contributions", "marker line", Amt36569,
            <<"All other contributions", " ", "~", " ">> \o Amt36569
            \o <<".", "\n", "1", "f">>),
      RowOf("noncash_contributions", "one line", Amt16924,
            <<"1", "g", " ", "Noncash contributions", " ">> \o Amt16924),
      RowOf("noncash_contributions", "one line", Amt36569,
            <<"1", "g", " ", "Noncash contributions", " ">> \o Amt36569),
      RowOf("contributions_total", "one line", Amt43437,
            <<"h", " ", "Total", ".", " ", "Add lines", " ", "1", "a", "-", "1", "f", " ">>
            \o Amt43437),
      RowOf("contributions_total", "marker line", Amt384948,
            <<"Total", ".", " ", "Add lines", " ", "1", "a", "-", "1", "f", " ">>
            \o Amt384948 \o <<".", "\n", "h">>),
      RowOf("program_service_revenue_total", "one line", Amt84415,
            <<"2", "g", " ", "Total", ".", " ", "Add lines", " ", "2", "a", "-", "2", "f",
              " ">> \o Amt84415),
      RowOf("program_service_revenue_total", "one line", Amt84415,
            <<"g", " ", "Total", ".", " ", "Add lines", " ", "2", "a", "en dash", "2", "f",
              " ">> \o Amt9000 \o <<" ">> \o Amt84415) }

OtherRows ==
    { RowOf("gross_rents", "one line", Amt1234,
            <<"6", "a", " ", "Gross rents", " ">> \o Amt1234),
      RowOf("depreciation", "one line", Amt112815,
            <<"2", "2", " ", "Depreciation", " ">> \o Amt112815),
      RowOf("investment_management_fees", "one line", Amt78097,
            <<"f", " ", "Investment", " ", "management fees", " ">> \o Amt78097),
      RowOf("investment_income", "one line", Amt12345,
            <<"3", " ", "Investment", " ", "income", " ">> \o Amt12345),
      RowOf("joint_costs", "one line", Amt8000,
            <<"2", "6", " ", "Joint costs", " ">> \o Amt8000),
      RowOf("gross_receipts", "one line", Amt50000,
            <<"G", " ", "Gross", " ", "receipts", " ", "$", " ">> \o Amt50000),
      RowOf("total_revenue", "one line", Amt50000,
            <<"1", "2", " ", "Total revenue", " ">> \o Amt50000) }

RowPool == RoyaltiesRows \cup AffiliateRows \cup FundraisingRows \cup ContributionRows
           \cup OtherRows

\* The texts: one row, or the rows of two fields in either order
RowSequences ==
    {<<r>> : r \in RowPool} \cup {rs \in RowPool \X RowPool : rs[1].field # rs[2].field}

RECURSIVE RowsText(_)
RowsText(rows) ==
    IF rows = <<>> THEN <<>> ELSE Head(rows).text \o <<"\n">> \o RowsText(Tail(rows))

InitRows ==
    /\ pdf \in [rows : RowSequences, ocr : {Pct(100)}]
    /\ stage = "uploaded"
    /\ v1_fields = Unset
    /\ fields = Unset
    /\ result = Unset
    /\ request = Unset
    /\ response = Unset
    /\ AmountIdle
    /\ ScorerIdle
    /\ RowIdle
    /\ ServiceIdle

RowsFrame == <<pdf, request, response, AmountVars, ScorerVars, RowVars, ServiceVars>>

\* Step 4 on the rows
ExtractRows ==
    /\ stage = "uploaded"
    /\ fields' = BaseRows(RowsText(pdf.rows))
    /\ v1_fields' = fields'
    /\ stage' = "v1"
    /\ UNCHANGED <<result, RowsFrame>>

\* Step 4.1: the whole of apply_precise_fixes
FixRows ==
    /\ stage = "v1"
    /\ fields' = apply_row_fixes(apply_precise_fixes(fields, RowsText(pdf.rows)),
                                 RowsText(pdf.rows))
    /\ stage' = "precise"
    /\ UNCHANGED <<v1_fields, result, RowsFrame>>

\* The fields that step 4.5 does not write
RowsReported ==
    [page1 |-> {"employer_identification_number", "gross_receipts"},
     part_viii |-> {"all_other_contributions", "noncash_contributions",
                    "investment_income", "royalties"},
     part_ix |-> {"professional_fundraising_services", "affiliate_payments",
                  "joint_costs"}]

\* Step 5 on these fields
ReportRows ==
    /\ stage = "precise"
    /\ result' = [section \in DOMAIN RowsReported |->
                    [name \in RowsReported[section] |->
                       make_field_with_confidence(fields[section][name], pdf.ocr)]]
    /\ stage' = "returned"
    /\ UNCHANGED <<v1_fields, fields, RowsFrame>>

NextRows ==
    \/ ExtractRows
    \/ FixRows
    \/ ReportRows

SpecRows == InitRows /\ [][NextRows]_vars

\* The rows of the text that belong to a field
RowsFor(name) == {k \in 1..Len(pdf.rows) : pdf.rows[k].field = name}

\* No row from the k-th on holds an amount
NoAmountFrom(k) == \A j \in k..Len(pdf.rows) : pdf.rows[j].amount = <<>>

\* The entry of the result for a field that was not found
NotFound == make_field_with_confidence(None, pdf.ocr)

\* The entry of the result for a field that is present and empty
PresentEmpty == make_field_with_confidence(<<>>, pdf.ocr)

\* The field is present and empty, and the result says so
RecordedEmpty(section, name) ==
    /\ fields[section][name] = <<>>
    /\ result[section][name] = PresentEmpty
    /\ PresentEmpty # NotFound

\* The field stays None and the result reports it as not found
RecordedNone(section, name) ==
    /\ fields[section][name] = None
    /\ result[section][name] = NotFound

EmptyOrNone == {<<"part_viii", "royalties">>, <<"part_ix", "affiliate_payments">>}

\* C28 as stated: a row whose label and marker are found with no amount in
\* its local window is recorded as present but empty (the empty string) and
\* reported differently from a field that was not found; a field with neither
\* label nor amount stays None.
C28_AsStated ==
    stage = "returned" =>
       \A sf \in EmptyOrNone :
          /\ \A k \in RowsFor(sf[2]) : NoAmountFrom(k) => RecordedEmpty(sf[1], sf[2])
          /\ (RowsFor(sf[2]) = {} /\ NoAmountFrom(1)) => RecordedNone(sf[1], sf[2])

\* C28 amended: the row is recorded as present but empty when its label line
\* is followed by a line with the row marker alone; with label and marker on
\* one line and no amount, as with neither label nor amount, the field stays
\* None.
C28_Amended ==
    stage = "returned" =>
       \A sf \in EmptyOrNone :
          /\ \A k \in RowsFor(sf[2]) :
                (pdf.rows[k].layout = "marker line" /\ NoAmountFrom(k))
                   => RecordedEmpty(sf[1], sf[2])
          /\ (/\ RowsFor(sf[2]) # {}
              /\ \A k \in RowsFor(sf[2]) : pdf.rows[k].layout = "one line"
              /\ NoAmountFrom(1)) => RecordedNone(sf[1], sf[2])
          /\ (RowsFor(sf[2]) = {} /\ NoAmountFrom(1)) => RecordedNone(sf[1], sf[2])

\* Both rows are there without an amount, row 5 with its marker on a line of
\* its own and row 21 on one line, and the result is returned
C28_Witness ==
    /\ stage = "returned"
    /\ NoAmountFrom(1)
    /\ \E k \in RowsFor("royalties") : pdf.rows[k].layout = "marker line"
    /\ \E k \in RowsFor("affiliate_payments") : pdf.rows[k].layout = "one line"
    /\ result.part_viii.royalties.source = "text_pattern"
    /\ result.part_ix.affiliate_payments.source = "none"

\* What the extractors of apply_precise_fixes return on the text
PreciseValues ==
    With(RowsText(pdf.rows), LAMBDA full_text :
      With(SectionOf(PartVIIISectionRe, full_text), LAMBDA part8_section :
        With(SectionOf(PartIXSectionRe, full_text), LAMBDA part9_section :
          With(extract_row1_contributions_precise(part8_section), LAMBDA row1_fixes :
            [page1 |->
               [gross_receipts |-> extract_gross_receipts_precise(full_text)],
             part_viii |->
               [all_other_contributions |-> row1_fixes.all_other_contributions,
                noncash_contributions |-> row1_fixes.noncash_contributions,
                contributions_total |-> row1_fixes.contributions_total,
                program_service_revenue_total |->
                    extract_row2g_program_revenue_precise(part8_section),
                royalties |-> extract_row5_royalties_precise(part8_section),
                total_revenue |-> extract_part8_total_revenue_precise(part8_section)],
             part_ix |->
               [professional_fundraising_services |->
                    extract_part9_professional_fundraising_precise(part9_section),
                affiliate_payments |->
                    extract_part9_affiliate_payments_precise(part9_section)]]))))

\* The fields written by any result that is not None
WrittenUnlessNone ==
    {<<"part_viii", "royalties">>, <<"part_ix", "professional_fundraising_services">>,
     <<"part_ix", "affiliate_payments">>}

\* The field after apply_precise_fixes, given the value of its extractor
FixedAs(sf, precise) ==
    fields[sf[1]][sf[2]] =
       IF sf \in WrittenUnlessNone
       THEN (IF precise # None THEN precise ELSE v1_fields[sf[1]][sf[2]])
       ELSE (IF precise # None /\ precise # <<>> THEN precise ELSE v1_fields[sf[1]][sf[2]])

\* C29: after apply_precise_fixes, royalties, professional_fundraising_services
\* and affiliate_payments hold what their extractors returned whenever that
\* is not None, the empty string included, and this is the value returned;
\* the six other fields it touches hold the extractor's value only when that
\* is non-empty; every field keeps its base value otherwise, and the
\* remaining fields keep theirs.
C29_LastWriter ==
    stage \in {"precise", "returned"} =>
       With(PreciseValues, LAMBDA precise :
         /\ \A section \in DOMAIN fields :
              \A name \in DOMAIN fields[section] :
                 IF name \in DOMAIN precise[section]
                 THEN FixedAs(<<section, name>>, precise[section][name])
                 ELSE fields[section][name] = v1_fields[section][name]
         /\ stage = "returned" =>
              \A sf \in WrittenUnlessNone :
                 precise[sf[1]][sf[2]] # None =>
                    result[sf[1]][sf[2]].value = precise[sf[1]][sf[2]])

\* A validated amount of the base extraction replaced by the empty string
\* for royalties, next to a row that apply_precise_fixes leaves alone
C29_Witness ==
    /\ stage = "returned"
    /\ _is_valid_monetary_amount(v1_fields.part_viii.royalties)
    /\ result.part_viii.royalties.value = <<>>
    /\ \E sf \in {<<"part_viii", "investment_income">>, <<"part_ix", "joint_costs">>} :
          /\ Truthy(v1_fields[sf[1]][sf[2]])
          /\ fields[sf[1]][sf[2]] = v1_fields[sf[1]][sf[2]]

\* ------------------------------------------------------------------------
\* The three extraction endpoints of main.py and the upload directory they
\* share. A stored file is its content (bytes no PDF reader opens, or a PDF
\* with its page texts) and the requests that opened it for writing. What
\* the environment does to a request is an input: fault names the call that
\* raises while the file is served ("save", "pipeline", "remove"), if any.

\* str.lower on the extensions of the uploads
Lower(ext) == IF ext = ".PDF" THEN ".pdf" ELSE ext

\* file.filename.lower().endswith('.pdf')
IsPdfName(filename) == Lower(filename.ext) = ".pdf"

\* A PDF of the given pages, and contents that are no PDF
PdfOf(page_texts, ocr, bytes) ==
    [readable |-> TRUE, page_texts |-> page_texts, ocr |-> ocr, bytes |-> bytes]

Unreadable(bytes) == [readable |-> FALSE, page_texts |-> <<>>, ocr |-> 0, bytes |-> bytes]

EmptyFile == Unreadable(0)

EmptyDir == [p \in {} |-> Unset]

\* The directory with the file at path set to f
WithFile(dir, path, f) ==
    [p \in DOMAIN dir \cup {path} |-> IF p = path THEN f ELSE dir[p]]

\* os.remove(path)
RemoveFile(dir, path) == [p \in DOMAIN dir \ {path} |-> dir[p]]

\* open(path, 'wb') by request r: the file is created, or truncated when it
\* exists
OpenForWriting(dir, path, r) ==
    WithFile(dir, path,
             [content |-> EmptyFile,
              written_by |-> IF path \in DOMAIN dir
                             THEN dir[path].written_by \cup {r} ELSE {r}])

\* What a file holds after a request wrote content from offset 0 over what
\* another writer left there: content when it covers the older bytes,
\* otherwise the older tail follows it and a reader may or may not open it
Overlay(old, content) ==
    IF content.bytes >= old.bytes THEN {content}
    ELSE {[content EXCEPT !.bytes = old.bytes], Unreadable(old.bytes)}

\* The write through the handle request r opened: it reaches the file at path
\* only while that file is still the one r opened
WriteThrough(dir, path, r, content) ==
    IF path \in DOMAIN dir /\ r \in dir[path].written_by
    THEN {WithFile(dir, path, [dir[path] EXCEPT !.content = c]) :
            c \in Overlay(dir[path].content, content)}
    ELSE {dir}

\* with open(temp_path, "wb") as buffer: shutil.copyfileobj(file.file, buffer)
\* on a path of the request's own: the upload stored, or the file left empty
\* when the copy raises
SaveUpload(dir, temp_path, r, file) ==
    WithFile(dir, temp_path,
             [content |-> IF file.fault = "save" THEN EmptyFile ELSE file.content,
              written_by |-> {r}])

\* if os.path.exists(path): os.remove(path), the removal raising under the
\* fault "remove"
RemoveIfExists(dir, path, fault) ==
    IF path \in DOMAIN dir /\ fault # "remove" THEN RemoveFile(dir, path) ELSE dir

\* HybridPDFProcessor._extract_with_pdfplumber: full_text
RECURSIVE PlumberText(_, _)
PlumberText(page_texts, page_num) ==
    IF page_num > Len(page_texts) THEN <<>>
    ELSE <<"\n", "--- Page ", DigitOf(page_num), " ---", "\n">>
         \o page_texts[page_num] \o <<"\n">> \o PlumberText(page_texts, page_num + 1)

\* PDFProcessor.process_pdf: validate_file, then the text of pdfplumber, the
\* empty string when pdfplumber raises on the file
process_pdf(dir, filepath) ==
    IF filepath \notin DOMAIN dir
    THEN [raised |-> TRUE, error |-> "FileNotFoundError", full_text |-> <<>>]
    ELSE IF Lower(filepath.ext) # ".pdf"
    THEN [raised |-> TRUE, error |-> "ValueError", full_text |-> <<>>]
    ELSE [raised |-> FALSE, error |-> "",
          full_text |-> IF dir[filepath].content.readable
                        THEN PlumberText(dir[filepath].content.page_texts, 1)
                        ELSE <<>>]

\* process_pdf then extract_all_fields on the stored file, as /api/extract and
\* /api/extract-batch call them
ProcessAndExtract(dir, temp_path, file) ==
    With(process_pdf(dir, temp_path), LAMBDA processed :
      IF processed.raised THEN [raised |-> TRUE, error |-> processed.error, data |-> Unset]
      ELSE IF file.fault = "pipeline"
      THEN [raised |-> TRUE, error |-> "Exception", data |-> Unset]
      ELSE [raised |-> FALSE, error |-> "",
            data |-> [filename |-> file.filename]
                     @@ extract_all_fields(processed.full_text, {}).data])

\* raise HTTPException(status_code, ...)
HttpError(status_code) == [status_code |-> status_code, success |-> FALSE, data |-> Unset]

\* The except clauses of extract_form_990
StatusOf(error) ==
    IF error = "FileNotFoundError" THEN 404 ELSE IF error = "ValueError" THEN 400 ELSE 500

\* extract_form_990: the response and the upload directory it leaves
extract_form_990(dir, r, file, temp_path) ==
    IF ~IsPdfName(file.filename)
    THEN [upload_dir |-> dir, response |-> HttpError(400)]
    ELSE With(SaveUpload(dir, temp_path, r, file), LAMBDA saved :
           [upload_dir |-> RemoveIfExists(saved, temp_path, file.fault),
            response |->
               IF file.fault = "save" THEN HttpError(500)
               ELSE With(ProcessAndExtract(saved, temp_path, file), LAMBDA outcome :
                      IF outcome.raised THEN HttpError(StatusOf(outcome.error))
                      ELSE [status_code |-> 200, success |-> TRUE,
                            data |-> outcome.data])])

\* An entry of the results of extract_batch
FailedEntry(file, error) ==
    [filename |-> file.filename, success |-> FALSE, error |-> error, data |-> Unset]

\* The body of the loop of extract_batch for one file: the entries it appends
\* and the upload directory it leaves. The entry of a success is appended
\* before the clean-up, whose exception the except clause answers with an
\* entry of its own.
BatchFile(dir, r, file, temp_path) ==
    IF ~IsPdfName(file.filename)
    THEN [upload_dir |-> dir,
          entries |-> <<FailedEntry(file, "Only PDF files are supported")>>]
    ELSE With(SaveUpload(dir, temp_path, r, file), LAMBDA saved :
           IF file.fault = "save"
           THEN [upload_dir |-> saved, entries |-> <<FailedEntry(file, "OSError")>>]
           ELSE With(ProcessAndExtract(saved, temp_path, file), LAMBDA outcome :
                  IF outcome.raised
                  THEN [upload_dir |-> saved,
                        entries |-> <<FailedEntry(file, outcome.error)>>]
                  ELSE [upload_dir |-> RemoveIfExists(saved, temp_path, file.fault),
                        entries |->
                           <<[filename |-> file.filename, success |-> TRUE,
                              error |-> "", data |-> outcome.data]>>
                           \o (IF file.fault = "remove"
                               THEN <<FailedEntry(file, "PermissionError")>>
                               ELSE <<>>)]))

\* sum(1 for r in results if ...)
CountEntries(entries, success) ==
    Cardinality({i \in 1..Len(entries) : entries[i].success = success})

\* The dict extract_batch returns
BatchResponse(files, entries) ==
    [status_code |-> 200,
     total_files |-> Len(files),
     successful |-> CountEntries(entries, TRUE),
     failed |-> CountEntries(entries, FALSE),
     results |-> entries]

\* "\n".join([p['text'] for p in form_990_pages])
RECURSIVE JoinPages(_, _)
JoinPages(page_list, i) ==
    IF i > Len(page_list) THEN <<>>
    ELSE page_list[i].text
         \o (IF i < Len(page_list) THEN <<"\n">> ELSE <<>>)
         \o JoinPages(page_list, i + 1)

\* Steps 1 to 3 of extract_all_fields_v2_hybrid on the file at filepath, then
\* the rest of the pipeline: both extractors raise on a missing or unreadable
\* file and the combiner then raises; avg_ocr_quality is 0.5 without pages
HybridOnFile(dir, filepath, fault) ==
    IF filepath \notin DOMAIN dir \/ ~dir[filepath].content.readable \/ fault = "pipeline"
    THEN [raised |-> TRUE, data |-> Unset]
    ELSE With(Numbered(dir[filepath].content.page_texts), LAMBDA page_list :
           extract_all_fields_v2_hybrid(
               JoinPages(page_list, detect_form_990_start(page_list)),
               IF Len(page_list) = 0 THEN Pct(50) ELSE dir[filepath].content.ocr,
               {}))

\* extract_form_990_v2 from its try statement on: the response and the upload
\* directory it leaves
ServeStoredUpload(dir, filepath, req) ==
    [upload_dir |-> RemoveIfExists(dir, filepath, req.files[1].fault),
     response |-> [status_code |-> 200]
                  @@ HandleUploadV2(HybridOnFile(dir, filepath, req.files[1].fault),
                                    req.fail_fast, req.confidence_threshold)]

\* ------------------------------------------------------------------------
\* Specification of the endpoints: two requests in flight. The first is to
\* any of the three endpoints, the second to /api/extract or /api/extract/v2.
\* /api/extract and the loop body of /api/extract-batch have no await and run
\* as one step each; /api/extract/v2 awaits the opening of its file, then the
\* write, and runs from its try statement on as one step.

Requests == {1, 2}

MaxBatch == 2

\* str(uuid.uuid4()) for the i-th file of request r: never the same twice
UuidPool ==
    << <<"0b5e", "3c1a", "77d2", "9f40">>, <<"a1e9", "c25b", "e8f3", "f6d7">> >>

uuid4(r, i) == [stem |-> UuidPool[r][i], ext |-> ".pdf"]

FormA ==
    PdfOf(<< FormText([ein |-> <<"3", "9", "-", "0", "8", "0", "6", "2", "5", "1", "\n">>,
                       gross |-> <<>>, page1 |-> Row12(<<Amt50000>>, <<>>),
                       part8 |-> NoRow, part9 |-> <<>>]) >>,
          Pct(100), 3)

FormB ==
    PdfOf(<< FormText([ein |-> <<>>, gross |-> GrossReceiptsLine(Amt5000),
                       page1 |-> Row12(<<Amt5000>>, <<>>),
                       part8 |-> NoRow, part9 |-> <<>>]) >>,
          Pct(100), 4)

ZeroPagePdf == PdfOf(<<>>, 0, 2)

Upload(stem, ext, content, fault) ==
    [filename |-> [stem |-> stem, ext |-> ext], content |-> content, fault |-> fault]

UploadedFiles ==
    { Upload("notes", ".txt", FormA, "none"),
      Upload("a", ".pdf", Unreadable(1), "none"),
      Upload("a", ".pdf", ZeroPagePdf, "none"),
      Upload("a", ".pdf", FormA, "none"),
      Upload("a", ".pdf", FormB, "none"),
      Upload("b", ".PDF", FormB, "none"),
      Upload("a", ".pdf", FormA, "save"),
      Upload("a", ".pdf", FormA, "pipeline"),
      Upload("a", ".pdf", FormA, "remove") }

Received(endpoint, files, fail_fast, confidence_threshold) ==
    [endpoint |-> endpoint, files |-> files, fail_fast |-> fail_fast,
     confidence_threshold |-> confidence_threshold,
     pc |-> "received", next_file |-> 1, results |-> <<>>, response |-> Unset]

SingleRequests ==
    { Received("extract", <<f>>, TRUE, Pct(70)) : f \in UploadedFiles }
    \cup { Received("extract_v2", <<f>>, ff, Pct(70)) : f \in UploadedFiles, ff \in BOOLEAN }

\* The files of a batch: no PDF by its name, two forms, and a form served
\* while the pipeline or the removal raises
BatchFiles ==
    {f \in UploadedFiles :
       \/ ~IsPdfName(f.filename)
       \/ f.content \in {FormA, FormB} /\ f.fault \in {"none", "pipeline", "remove"}}

BatchRequests ==
    { Received("extract_batch", files, TRUE, Pct(70)) :
        files \in UNION {[1..n -> BatchFiles] : n \in 1..MaxBatch} }

InitEndpoints ==
    /\ upload_dir = EmptyDir
    /\ inflight \in {<<first, second>> :
                       first \in SingleRequests \cup BatchRequests,
                       second \in SingleRequests}
    /\ AmountIdle
    /\ ScorerIdle
    /\ RowIdle
    /\ PipelineIdle
    /\ ValidatorIdle
    /\ CombinerIdle
    /\ SectionIdle
    /\ AnalyzerIdle

\* The request r with its response
Answered(req, answer) == [req EXCEPT !.pc = "done", !.response = answer]

EndpointFrame == <<AmountVars, ScorerVars, RowVars, PipelineVars, ValidatorVars,
                   CombinerVars, SectionVars, AnalyzerVars>>

\* /api/extract, the whole handler
ServeExtract(r) ==
    /\ inflight[r].endpoint = "extract"
    /\ inflight[r].pc = "received"
    /\ With(extract_form_990(upload_dir, r, inflight[r].files[1], uuid4(r, 1)),
            LAMBDA served :
              /\ upload_dir' = served.upload_dir
              /\ inflight' = [inflight EXCEPT ![r] = Answered(@, served.response)])
    /\ UNCHANGED EndpointFrame

\* /api/extract/v2 up to the opening of UPLOAD_DIR/file.filename
OpenUpload(r) ==
    /\ inflight[r].endpoint = "extract_v2"
    /\ inflight[r].pc = "received"
    /\ IF ~IsPdfName(inflight[r].files[1].filename)
       THEN /\ inflight' = [inflight EXCEPT ![r] =
                               Answered(@, [status_code |-> 200, success |-> FALSE,
                                            data |-> Unset, confidence |-> 0])]
            /\ UNCHANGED upload_dir
       ELSE /\ upload_dir' = OpenForWriting(upload_dir, inflight[r].files[1].filename, r)
            /\ inflight' = [inflight EXCEPT ![r].pc = "opened"]
    /\ UNCHANGED EndpointFrame

\* /api/extract/v2: await f.write(content), outside the try statement, so
\* that an exception of the write leaves the handler
WriteUpload(r) ==
    /\ inflight[r].endpoint = "extract_v2"
    /\ inflight[r].pc = "opened"
    /\ IF inflight[r].files[1].fault = "save"
       THEN /\ inflight' = [inflight EXCEPT ![r] = Answered(@, HttpError(500))]
            /\ UNCHANGED upload_dir
       ELSE /\ upload_dir' \in WriteThrough(upload_dir, inflight[r].files[1].filename, r,
                                            inflight[r].files[1].content)
            /\ inflight' = [inflight EXCEPT ![r].pc = "saved"]
    /\ UNCHANGED EndpointFrame

\* /api/extract/v2 from its try statement to its return
ServeExtractV2(r) ==
    /\ inflight[r].endpoint = "extract_v2"
    /\ inflight[r].pc = "saved"
    /\ With(ServeStoredUpload(upload_dir, inflight[r].files[1].filename, inflight[r]),
            LAMBDA served :
              /\ upload_dir' = served.upload_dir
              /\ inflight' = [inflight EXCEPT ![r] = Answered(@, served.response)])
    /\ UNCHANGED EndpointFrame

\* /api/extract-batch: the loop body for the next file, and the return after
\* the last one
ServeBatchFile(r) ==
    /\ inflight[r].endpoint = "extract_batch"
    /\ inflight[r].pc = "received"
    /\ With(BatchFile(upload_dir, r, inflight[r].files[inflight[r].next_file],
                      uuid4(r, inflight[r].next_file)),
            LAMBDA served :
              /\ upload_dir' = served.upload_dir
              /\ inflight' =
                   [inflight EXCEPT ![r] =
                      IF inflight[r].next_file < Len(inflight[r].files)
                      THEN [inflight[r] EXCEPT
                              !.next_file = @ + 1,
                              !.results = @ \o served.entries]
                      ELSE [inflight[r] EXCEPT
                              !.pc = "done",
                              !.results = @ \o served.entries,
                              !.response = BatchResponse(inflight[r].files,
                                              inflight[r].results \o served.entries)]])
    /\ UNCHANGED EndpointFrame

NextEndpoints ==
    \E r \in Requests :
       \/ ServeExtract(r)
       \/ OpenUpload(r)
       \/ WriteUpload(r)
       \/ ServeExtractV2(r)
       \/ ServeBatchFile(r)

SpecEndpoints == InitEndpoints /\ [][NextEndpoints]_vars

\* An upload that is no PDF by its name, that no PDF reader opens, or that
\* has no page
BadInput(file) ==
    \/ ~IsPdfName(file.filename)
    \/ ~file.content.readable
    \/ Len(file.content.page_texts) = 0

\* C21 as stated: a request whose input is a bad file type, an unreadable PDF
\* or a PDF with zero pages never yields a successful extraction response on
\* /api/extract and /api/extract/v2, and a batch has no more successful
\* entries than it has files that are none of these.
C21_BadInputRejected ==
    \A r \in Requests :
       inflight[r].pc = "done" =>
          IF inflight[r].endpoint = "extract_batch"
          THEN CountEntries(inflight[r].response.results, TRUE)
                  <= Cardinality({i \in 1..Len(inflight[r].files) :
                                     ~BadInput(inflight[r].files[i])})
          ELSE BadInput(inflight[r].files[1]) => ~inflight[r].response.success

\* C22 as stated: when a request has ended, on whatever exit path, no file
\* written for it is left in the upload directory.
C22_TempFilesRemoved ==
    \A r \in Requests :
       inflight[r].pc = "done" =>
          \A p \in DOMAIN upload_dir : r \notin upload_dir[p].written_by

\* The entries a batch of request r gets for its files from the i-th on when
\* each is served in an empty upload directory
RECURSIVE EntriesAlone(_, _, _)
EntriesAlone(r, files, i) ==
    IF i > Len(files) THEN <<>>
    ELSE BatchFile(EmptyDir, r, files[i], uuid4(r, i)).entries
         \o EntriesAlone(r, files, i + 1)

\* The response to request r when no other request is in flight
ServedAlone(r) ==
    With(inflight[r], LAMBDA req :
      IF req.endpoint = "extract"
      THEN extract_form_990(EmptyDir, r, req.files[1], uuid4(r, 1)).response
      ELSE IF req.endpoint = "extract_batch"
      THEN BatchResponse(req.files, EntriesAlone(r, req.files, 1))
      ELSE IF ~IsPdfName(req.files[1].filename)
      THEN [status_code |-> 200, success |-> FALSE, data |-> Unset, confidence |-> 0]
      ELSE IF req.files[1].fault = "save" THEN HttpError(500)
      ELSE ServeStoredUpload(
               WithFile(EmptyDir, req.files[1].filename,
                        [content |-> req.files[1].content, written_by |-> {r}]),
               req.files[1].filename, req).response)

\* A step of request r that changes or removes a file written by another
\* request that has not ended
Disturbs(r, q) ==
    /\ r # q
    /\ inflight'[r] # inflight[r]
    /\ inflight[q].pc # "done"
    /\ \E p \in DOMAIN upload_dir :
          /\ q \in upload_dir[p].written_by
          /\ p \in DOMAIN upload_dir' => upload_dir'[p].content # upload_dir[p].content

\* C23 as stated: for every interleaving of two requests in flight, no request
\* overwrites or deletes a file another request in flight wrote, and the
\* response to each request is the one it gets when served alone.
C23_RequestsIsolated ==
    /\ [](\A r \in Requests : inflight[r].pc = "done" => inflight[r].response = ServedAlone(r))
    /\ [][\A r, q \in Requests : ~Disturbs(r, q)]_vars

\* C24 as stated: extract_batch returns one entry per input file, in input
\* order, the entry of each file being the one it gets in a batch of its own,
\* with success false and an error string for a file that is no PDF or
\* fails, and successful + failed = total_files.
C24_OneEntryPerFile ==
    \A r \in Requests :
       inflight[r].endpoint = "extract_batch" /\ inflight[r].pc = "done" =>
          With(inflight[r].response, LAMBDA returned :
            /\ Len(returned.results) = Len(inflight[r].files)
            /\ \A i \in 1..Len(inflight[r].files) :
                  i <= Len(returned.results) =>
                     /\ returned.results[i].filename = inflight[r].files[i].filename
                     /\ returned.results[i]
                          = BatchFile(EmptyDir, r, inflight[r].files[i], uuid4(r, 1)).entries[1]
                     /\ ~returned.results[i].success => returned.results[i].error # ""
            /\ returned.successful + returned.failed = returned.total_files)

\* The stages of the pipeline follow one another as base extraction, then
\* second, then third, then scoring
StageOrder(second, third) ==
    /\ stage' = "v1" => stage = "uploaded"
    /\ stage' = second => stage = "v1"
    /\ stage' = third => stage = second
    /\ stage' = "returned" => stage = third

\* The result returned is the scoring of the field set given
Returned(expected) ==
    stage \in {"returned", "responded"} =>
       \A sf \in ResultFields :
          FieldOf(result, sf) = make_field_with_confidence(FieldOf(expected, sf), pdf.ocr)

\* C25 as stated: the field set is written in the order base extraction,
\* enhancement, precision fixes, confidence scoring, and the result returned
\* is the scoring of the base fields enhanced and then fixed.
C25_AsStated ==
    /\ [][StageOrder("enhanced", "precise")]_vars
    /\ []Returned(apply_precise_fixes(ApplyEnhancements(v1_fields, FormText(pdf)),
                                      FormText(pdf)))

\* C25 amended: the field set is written in the order base extraction,
\* precision fixes, enhancement, confidence scoring, each stage on the fields
\* the stage before it left, and the result returned is the scoring of the
\* base fields fixed and then enhanced.
C25_Amended ==
    /\ [][StageOrder("precise", "enhanced")]_vars
    /\ []Returned(ApplyEnhancements(apply_precise_fixes(v1_fields, FormText(pdf)),
                                    FormText(pdf)))

\* A result returned after the precision fixes changed a field of the base
\* extraction and the enhancement changed a field the fixes left
C25_Witness ==
    /\ stage = "returned"
    /\ With(apply_precise_fixes(v1_fields, FormText(pdf)), LAMBDA fixed :
         /\ fixed # v1_fields
         /\ fields # fixed
         /\ FieldOf(result, <<"part_viii", "total_revenue">>).value
              = fixed.part_viii.total_revenue)

\* The cross-validation of step 6 on the fields
CrossValidationOf(f) ==
    validate_all(
        [total_contributions |-> None,
         total_revenue |-> f.page1.total_revenue,
         total_assets |-> None,
         total_liabilities |-> None,
         net_assets_or_fund_balances |-> None],
        [contributions_total |-> None,
         total_revenue |-> f.part_viii.total_revenue],
        [total_functional_expenses_a |-> None,
         total_functional_expenses_b |-> None,
         total_functional_expenses_c |-> None,
         total_functional_expenses_d |-> None])

\* The field confidences of the EIN and of the Page 1 total revenue that
\* step 7 computes, those of the two whose value is not None
TwoCriticalPresent(f, avg_ocr_quality) ==
    SelectSeq(
        <<calculate_field_confidence(f.page1.employer_identification_number, "text_pattern",
              IF Truthy(f.page1.employer_identification_number) THEN Whole ELSE 0,
              Whole, avg_ocr_quality),
          calculate_field_confidence(f.page1.total_revenue, "text_pattern",
              IF Truthy(f.page1.total_revenue) THEN Whole ELSE 0,
              CrossValidationOf(f).confidence_adjustment, avg_ocr_quality)>>,
        LAMBDA fc : fc.value # None)

\* max(0, mean - 0.1 * (7 - n)) of n confidences, the mean of none being 0
PenalisedMean(present) ==
    With(Len(present), LAMBDA n :
      Max(0, (IF n = 0 THEN 0
              ELSE (SumSeq([i \in 1..n |-> present[i].confidence]) * ScoreScale) \div n)
             - (Len(critical_fields) - n) * Pct(MISSING_PENALTY) * ScoreScale))

\* C30: the overall_confidence of the result is max(0, mean - 0.1 * (7 - n))
\* over the confidences of those of the EIN and the Page 1 total revenue
\* that are not None, n being their number; pass_threshold is
\* overall_confidence >= 0.70, and the errors are empty whenever it holds.
C30_OverallFromTwoFields ==
    stage = "returned" =>
       /\ result.overall_confidence = PenalisedMean(TwoCriticalPresent(fields, pdf.ocr))
       /\ result.pass_threshold
             = (result.overall_confidence >= Pct(PRODUCTION_THRESHOLD) * ScoreScale)
       /\ result.pass_threshold => result.errors = <<>>

\* Both fields found together with gross_receipts, at full OCR quality: the
\* overall confidence is positive and five critical fields count as missing
C30_Witness ==
    /\ stage = "returned"
    /\ pdf.ocr = Pct(100)
    /\ Len(TwoCriticalPresent(fields, pdf.ocr)) = 2
    /\ Truthy(fields.page1.gross_receipts)
    /\ result.overall_confidence > 0
    /\ result.overall_confidence <= Pct(50) * ScoreScale
    /\ ~result.pass_threshold

\* ------------------------------------------------------------------------
\* Specification of the amount validator: every token over a small alphabet

MaxTokenLen == 5

TokenAlphabet == {"0", "1", ",", ".", "a"}

Tokens == UNION {[1..n -> TokenAlphabet] : n \in 0..MaxTokenLen}

InitAmount ==
    /\ value \in Tokens
    /\ verdict = "unset"
    /\ ScorerIdle
    /\ RowIdle
    /\ PipelineIdle
    /\ ServiceIdle

CheckAmount ==
    /\ verdict = "unset"
    /\ verdict' = <<_is_valid_monetary_amount(value), Base_is_valid_monetary_amount(value)>>
    /\ UNCHANGED <<value, ScorerVars, RowVars, PipelineVars,
                   ServiceVars>>

NextAmount == CheckAmount

SpecAmount == InitAmount /\ [][NextAmount]_vars

\* The claim's right-hand side, stated on the token itself.
StripsToAmount(s) ==
    LET clean == Remove(s, {",", "."})
    IN  /\ isdigit(clean)
        /\ Len(clean) >= MIN_AMOUNT_LENGTH
        /\ int(clean) >= 100

IsLiteralZero(s) == s = <<"0">> \/ s = <<"0", ".", "0", "0">>

\* C1 as stated: the validator answers true iff the token is exactly "0" or
\* "0.00", or strips to digits, of at least the minimum length and of value
\* at least 100.
C1_AsStated ==
    verdict # "unset" =>
        /\ verdict[1] = (IsLiteralZero(value) \/ StripsToAmount(value))
        /\ verdict[2] = verdict[1]

\* C1 amended: the validator answers true iff the token with commas and
\* points removed is exactly "0", or the token is "0.00", or it strips to
\* digits, of at least the minimum length and of value at least 100; both
\* copies of the validator agree.
C1_Amended ==
    verdict # "unset" =>
        /\ verdict[1] = (\/ Remove(value, {",", "."}) = <<"0">>
                         \/ value = <<"0", ".", "0", "0">>
                         \/ StripsToAmount(value))
        /\ verdict[2] = verdict[1]

\* A token accepted only as a zero written with a separator ("0." or ",0").
C1_Witness ==
    /\ verdict # "unset"
    /\ verdict[1]
    /\ ~IsLiteralZero(value)
    /\ ~StripsToAmount(value)

====
